---- MODULE Spec2Model ----
(***************************************************************************)
(* A model of the type-metadata subsystem of the IR generator             *)
(* (lib/IRGen/GenMeta.cpp): the metadata builders and the generic         *)
(* template builder, the metadata searchers (field locators), the         *)
(* override-compatibility check and the metadata-reference resolver.      *)
(*                                                                         *)
(* Eight specifications share the module, one per subsystem:              *)
(*   SpecLayout    builders, templates and searchers                      *)
(*   SpecOverride  isCompatibleOverride / doesMethodRequireOverrideEntry  *)
(*   SpecRef       emitTypeMetadataRef within code-generation sessions    *)
(*   SpecTraversal the searchers over arbitrary hook traversals           *)
(*   SpecFill      the fill routine of a generic metadata template        *)
(*   SpecCompat    isIncompatibleOverride over argument positions         *)
(*   SpecVTable    the class builder's methods and the method locator     *)
(*   SpecVirtual   findOverriddenFunction for a virtual call              *)
(* A specification leaves the variables of the other subsystems at their  *)
(* idle values.                                                            *)
(*                                                                         *)
(* Assertions of the source are modelled as enabled: a failing assert     *)
(* ends the operation with status "fatal".                                 *)
(***************************************************************************)
EXTENDS Integers, Sequences, FiniteSets, TLC

VARIABLES
  decl,         \* the nominal type declaration handed to the builder/searcher
  PointerSize,  \* IGM.getPointerSize(), in bytes
  traversal,    \* the hook invocations the layout of the declaration makes
  builder,      \* the metadata builder after emit*Metadata (or not yet run)
  searcher,     \* the metadata searcher after getTargetIndex (or not yet run)
  query,        \* the arguments of the last doesMethodRequireOverrideEntry call
  answer,       \* its result
  ty,           \* the type the function being generated refers to
  session,      \* the IRGenFunction of the running code-generation session
  refs,         \* the emitTypeMetadataRef calls made so far, oldest first
  record,       \* the words of a metadata record being instantiated
  fills         \* the running invocations of the record's fill routine

vars == <<decl, PointerSize, traversal, builder, searcher, query, answer, ty,
          session, refs, record, fills>>

layoutVars == <<decl, PointerSize, traversal, builder, searcher>>
overrideVars == <<query, answer>>
refVars == <<ty, session, refs>>
fillVars == <<record, fills>>

(***************************************************************************)
(* Bounds of the model.                                                    *)
(***************************************************************************)
MaxFields == 2       \* stored fields of a declaration
MaxMethods == 2      \* methods of a class that get their own v-table entry
MaxArchetypes == 2   \* archetypes of a generic declaration
MaxProtocols == 1    \* conformance requirements of one archetype
VWTPatternLen == 2   \* fields of a dependent value-witness-table pattern

(***************************************************************************)
(* Program constants.                                                      *)
(***************************************************************************)
TemplateHeaderFieldCount == 5
InvalidIndex == -1   \* ~0U, read as the int with the same 32 bits

Int16Range == 2^16

(***************************************************************************)
(* Declarations.  A declaration has a kind, a number of stored fields, a   *)
(* number of methods that need their own v-table entry (classes only), a  *)
(* list of archetypes (each given by the number of protocols it must      *)
(* conform to; the declaration is generic iff the list is not empty),     *)
(* whether its value-witness table depends on the generic parameters,     *)
(* and for a class whether it has a superclass and whether the superclass *)
(* and the parent type have constant metadata addresses ("deferred": the  *)
(* referenced type is generic or has generic parameters in its context).  *)
(***************************************************************************)
ArchetypeLists ==
  UNION { [1..n -> 0..MaxProtocols] : n \in 0..MaxArchetypes }

IsGeneric(d) == Len(d.archetypes) > 0

Decls ==
  { d \in [kind : {"class", "struct", "enum"},
           fields : 0..MaxFields,
           methods : 0..MaxMethods,
           archetypes : ArchetypeLists,
           dependentVWT : BOOLEAN,
           superclass : {"none", "constant", "deferred"},
           parentConstant : BOOLEAN] :
      /\ d.kind # "class" =>
           d.methods = 0 /\ d.superclass = "none" /\ d.parentConstant
      /\ d.dependentVWT => (d.kind # "class" /\ IsGeneric(d)) }

(***************************************************************************)
(* Layout hooks.  h names the hook, a is the field, method or archetype   *)
(* (1-based) it is called for, p the protocol of a witness-table hook.    *)
(***************************************************************************)
Hook(h, a, p) == [h |-> h, a |-> a, p |-> p]

RECURSIVE WitnessTableHooks(_, _, _)
WitnessTableHooks(a, p, n) ==
  IF p > n THEN <<>>
  ELSE <<Hook("addGenericWitnessTable", a, p)>> \o WitnessTableHooks(a, p + 1, n)

RECURSIVE GenericFieldHooks(_, _)
GenericFieldHooks(archetypes, a) ==
  IF a > Len(archetypes) THEN <<>>
  ELSE <<Hook("addGenericArgument", a, 0)>>
         \o WitnessTableHooks(a, 1, archetypes[a])
         \o GenericFieldHooks(archetypes, a + 1)

ClassMetadataLayout(d) ==
  << Hook("addMetadataFlags", 0, 0),
     Hook("addValueWitnessTable", 0, 0),
     Hook("addDestructorFunction", 0, 0),
     Hook("addParentMetadataRef", 0, 0),
     Hook("addSuperClass", 0, 0),
     Hook("noteAddressPoint", 0, 0) >>
  \o [i \in 1..d.fields |-> Hook("addFieldOffset", i, 0)]
  \o [i \in 1..d.methods |-> Hook("addMethod", i, 0)]
  \o GenericFieldHooks(d.archetypes, 1)

StructMetadataLayout(d) ==
  << Hook("addMetadataFlags", 0, 0),
     Hook("addNominalTypeDescriptor", 0, 0),
     Hook("addParentMetadataRef", 0, 0),
     Hook("noteAddressPoint", 0, 0),
     Hook("addValueWitnessTable", 0, 0) >>
  \o GenericFieldHooks(d.archetypes, 1)

EnumMetadataLayout(d) == StructMetadataLayout(d)

LayoutOf(d) ==
  CASE d.kind = "class" -> ClassMetadataLayout(d)
    [] d.kind = "struct" -> StructMetadataLayout(d)
    [] d.kind = "enum" -> EnumMetadataLayout(d)

(***************************************************************************)
(* Metadata builders.  Fields is the sequence of constants pushed so far;  *)
(* a field is a tag and a number.  The generic adapter                     *)
(* (GenericMetadataBuilderBase) adds AddressPoint, NumGenericWitnesses,    *)
(* FillOps, HasDependentVWT and DependentVWTPoint.  ords records, for     *)
(* every hook invocation in order, the value of getNextIndex() when the   *)
(* hook was entered.                                                       *)
(***************************************************************************)
F(tag, v) == [tag |-> tag, v |-> v]

NullField == F("null", 0)

NoFillFunction ==
  [emitted |-> FALSE, FillOps |-> <<>>, HasDependentVWT |-> FALSE,
   DependentVWTPoint |-> 0, AddressPoint |-> 0]

NewBuilder(isTemplate) ==
  [status |-> "new",
   isTemplate |-> isTemplate,
   Fields |-> <<>>,
   AddressPoint |-> 0,
   NumGenericWitnesses |-> 0,
   FillOps |-> <<>>,
   HasDependentVWT |-> FALSE,
   DependentVWTPoint |-> 0,
   FillFunction |-> NoFillFunction,
   ords |-> <<>>]

Push(b, f) == [b EXCEPT !.Fields = Append(@, f)]

\* ClassMetadataBuilderBase / StructMetadataBuilderBase /
\* EnumMetadataBuilderBase ::getNextIndex
BaseGetNextIndex(b) == Len(b.Fields)

\* A getNextIndex that does not skip the preallocated header.
GetNextIndex_CountsHeader(b) == BaseGetNextIndex(b)

\* GenericMetadataBuilderBase::getNextIndex
GetNextIndex(b) == BaseGetNextIndex(b) - TemplateHeaderFieldCount

\* The getNextIndex the most-derived builder class resolves to.
BuilderNextIndex(b) ==
  IF b.isTemplate THEN GetNextIndex(b) ELSE BaseGetNextIndex(b)

\* Every metadata record is reached through an indirection.
IsMetadataIndirect_Always(t) == TRUE

\* isMetadataIndirect
IsMetadataIndirect(t) == FALSE

\* A null llvm::Constant*: no constant reference.
NoConstant == F("nullptr", 0)

\* tryEmitConstantHeapMetadataRef.  The referenced type is given by its
\* shape: "deferred" is a bound generic type, "genericContext" a nominal
\* type with generic parameters in its context, "foreign" a class without
\* Swift metadata, "constant" any other nominal type.
TryEmitConstantHeapMetadataRef(type) ==
  IF type = "deferred" THEN NoConstant
  ELSE IF type = "genericContext" THEN NoConstant
  ELSE IF type = "foreign" THEN F("objcClass", 0)
  ELSE IF IsMetadataIndirect(type) THEN NoConstant
  ELSE F("metadata", 0)

\* An addReferenceToType that leaves the slot out when there is no
\* constant reference.
AddReferenceToType_SkipsDeferred(b, type) ==
  LET metadata == TryEmitConstantHeapMetadataRef(type)
  IN IF metadata # NoConstant THEN Push(b, metadata) ELSE b

\* ClassMetadataBuilderBase::addReferenceToType: the constant metadata
\* address, or a null placeholder; one field in both branches.
AddReferenceToType(b, type) ==
  LET metadata == TryEmitConstantHeapMetadataRef(type)
  IN IF metadata # NoConstant THEN Push(b, metadata) ELSE Push(b, NullField)

\* forClass->getDeclContext()->getDeclaredTypeInContext()
ParentType(d) == IF d.parentConstant THEN "constant" ELSE "deferred"

\* addValueWitnessTableSlotForGenericValueType
AddValueWitnessTableSlotForGenericValueType(b, d) ==
  [(IF d.dependentVWT THEN Push(b, NullField) ELSE Push(b, F("vwt", 0)))
     EXCEPT !.HasDependentVWT = d.dependentVWT]

\* The hooks of ClassMetadataBuilderBase.
ClassBuilderHook(b, d, hk) ==
  CASE hk.h = "addMetadataFlags" -> Push(b, F("metaclass", 0))
    [] hk.h = "addValueWitnessTable" -> Push(b, F("vwt", 0))
    [] hk.h = "addDestructorFunction" -> Push(b, F("destructor", 0))
    [] hk.h = "addParentMetadataRef" -> AddReferenceToType(b, ParentType(d))
    [] hk.h = "addSuperClass" ->
         IF d.superclass = "none" THEN Push(b, F("rootClass", 0))
         ELSE AddReferenceToType(b, d.superclass)
    [] hk.h = "addClassCacheData" ->
         Push(Push(b, F("emptyCache", 0)), F("emptyVTable", 0))
    [] hk.h = "addClassDataPointer" -> Push(b, F("classData", 1))
    [] hk.h = "addFieldOffset" -> Push(b, F("int", 0))
    [] hk.h = "addMethod" -> Push(b, F("function", hk.a))
    [] hk.h = "addGenericArgument" -> Push(b, NullField)
    [] hk.h = "addGenericWitnessTable" -> Push(b, NullField)
    [] hk.h = "noteAddressPoint" -> b

\* The hooks of StructMetadataBuilderBase and EnumMetadataBuilderBase, with
\* addValueWitnessTable of the most-derived builder.
ValueBuilderHook(b, d, hk) ==
  CASE hk.h = "addMetadataFlags" -> Push(b, F("kind", 0))
    [] hk.h = "addNominalTypeDescriptor" -> Push(b, NullField)
    [] hk.h = "addParentMetadataRef" -> Push(b, NullField)
    [] hk.h = "addValueWitnessTable" ->
         IF b.isTemplate THEN AddValueWitnessTableSlotForGenericValueType(b, d)
         ELSE Push(b, F("vwt", 0))
    [] hk.h = "addGenericArgument" -> Push(b, NullField)
    [] hk.h = "addGenericWitnessTable" -> Push(b, NullField)
    [] hk.h = "noteAddressPoint" -> b

\* The class builder also pushes the class cache data after the superclass.
BaseHook_WithCacheData(b, d, hk) ==
  IF d.kind = "class"
  THEN IF hk.h = "addSuperClass"
       THEN ClassBuilderHook(ClassBuilderHook(b, d, hk), d,
                             Hook("addClassCacheData", 0, 0))
       ELSE ClassBuilderHook(b, d, hk)
  ELSE ValueBuilderHook(b, d, hk)

BaseHook(b, d, hk) ==
  IF d.kind = "class" THEN ClassBuilderHook(b, d, hk)
  ELSE ValueBuilderHook(b, d, hk)

\* A fill op is recorded without claiming a source index.
RecordFillOp_NoIncrement(b) ==
  [b EXCEPT !.FillOps =
     Append(@, [FromIndex |-> b.NumGenericWitnesses, ToIndex |-> GetNextIndex(b)])]

\* Every fill op is recorded with the address point as its destination.
RecordFillOp_SameSlot(b) ==
  [b EXCEPT !.FillOps =
     Append(@, [FromIndex |-> b.NumGenericWitnesses, ToIndex |-> b.AddressPoint]),
            !.NumGenericWitnesses = @ + 1]

\* FillOps.push_back(FillOp(NumGenericWitnesses++, getNextIndex()))
RecordFillOp(b) ==
  [b EXCEPT !.FillOps =
     Append(@, [FromIndex |-> b.NumGenericWitnesses, ToIndex |-> GetNextIndex(b)]),
            !.NumGenericWitnesses = @ + 1]

\* The fill op of a generic argument is recorded after its slot is pushed.
AddGenericArgument_AfterPush(b, d, hk) == RecordFillOp(BaseHook(b, d, hk))

\* GenericMetadataBuilderBase::addGenericArgument
AddGenericArgument(b, d, hk) == BaseHook(RecordFillOp(b), d, hk)

\* A witness-table hook that records no fill op.
AddGenericWitnessTable_NoFillOp(b, d, hk) == BaseHook(b, d, hk)

\* GenericMetadataBuilderBase::addGenericWitnessTable
AddGenericWitnessTable(b, d, hk) == BaseHook(RecordFillOp(b), d, hk)

\* GenericMetadataBuilderBase::noteAddressPoint
NoteAddressPoint(b) == [b EXCEPT !.AddressPoint = GetNextIndex(b)]

\* One hook invocation on the most-derived builder.
BuilderHook(b, d, hk) ==
  IF b.isTemplate
  THEN CASE hk.h = "addGenericArgument" -> AddGenericArgument(b, d, hk)
         [] hk.h = "addGenericWitnessTable" -> AddGenericWitnessTable(b, d, hk)
         [] hk.h = "noteAddressPoint" -> NoteAddressPoint(b)
         [] OTHER -> BaseHook(b, d, hk)
  ELSE BaseHook(b, d, hk)

\* super::layout(): the hooks of the declaration's layout, in order.
RECURSIVE RunBuilderLayout(_, _, _, _)
RunBuilderLayout(b, d, hooks, i) ==
  IF i > Len(hooks) THEN b
  ELSE RunBuilderLayout(
         BuilderHook([b EXCEPT !.ords = Append(@, BuilderNextIndex(b))], d, hooks[i]),
         d, hooks, i + 1)

\* emitDependentValueWitnessTablePattern: the pattern's fields are appended.
RECURSIVE AddDependentValueWitnessTablePattern(_, _)
AddDependentValueWitnessTablePattern(b, n) ==
  IF n = 0 THEN b
  ELSE AddDependentValueWitnessTablePattern(Push(b, F("vwtPattern", n)), n - 1)

\* GenericMetadataBuilderBase::emitFillFunction: the routine copies the
\* builder's fill ops, address point and dependent-VWT point as they are
\* when it is emitted.
EmitFillFunction(b) ==
  [emitted |-> TRUE,
   FillOps |-> b.FillOps,
   HasDependentVWT |-> b.HasDependentVWT,
   DependentVWTPoint |-> b.DependentVWTPoint,
   AddressPoint |-> b.AddressPoint]

\* The header's size field is computed before the dependent VWT pattern.
HeaderSize_BeforePattern(b, ptrSize) ==
  (GetNextIndex(b) - (IF b.HasDependentVWT THEN VWTPatternLen ELSE 0)) * ptrSize

\* uint32_t MetadataSize (far below 2^32 for every record of the model)
HeaderSize(b, ptrSize) == GetNextIndex(b) * ptrSize

\* The header's address point is stored as a slot count, not in bytes.
HeaderAddressPoint_InSlots(b, ptrSize) == b.AddressPoint % Int16Range

\* uint16_t AddressPoint
HeaderAddressPoint(b, ptrSize) == (b.AddressPoint * ptrSize) % Int16Range

\* uint16_t NumArguments
HeaderNumArguments(b, d) == b.NumGenericWitnesses % Int16Range

\* A private-data block of four pointers.
GetPrivateDataInit_FourWords == F("privateData", 4)

\* void *PrivateData[8]: an array of eight null pointers
GetPrivateDataInit == F("privateData", 8)

\* The width in bytes of a field of the record, from its LLVM type: the
\* header's Int32Ty and Int16Ty constants, the array of pointers, and
\* pointers for everything else.
FieldWidth(f, ptrSize) ==
  CASE f.tag = "int32" -> 4
    [] f.tag = "int16" -> 2
    [] f.tag = "privateData" -> f.v * ptrSize
    [] OTHER -> ptrSize

\* GenericMetadataBuilderBase::layout, after the header has been reserved
\* and super::layout() has run: the dependent VWT pattern and the header.
FinishTemplate(b0, d, ptrSize) ==
  LET b1 == IF b0.HasDependentVWT
            THEN AddDependentValueWitnessTablePattern(
                   [b0 EXCEPT !.DependentVWTPoint = GetNextIndex(b0)], VWTPatternLen)
            ELSE b0
      fill == EmitFillFunction(b1)
      b2 == [b1 EXCEPT !.FillFunction = fill,
                       !.Fields[1] = F("fillFunction", 0),
                       !.Fields[2] = F("int32", HeaderSize(b1, ptrSize)),
                       !.Fields[3] = F("int16", HeaderNumArguments(b1, d))]
  IN IF b2.AddressPoint = 0
     THEN [b2 EXCEPT !.status = "fatal"]     \* "address point not noted!"
     ELSE [b2 EXCEPT !.Fields[4] = F("int16", HeaderAddressPoint(b2, ptrSize)),
                     !.Fields[5] = GetPrivateDataInit,
                     !.status = "done"]

\* GenericMetadataBuilderBase::layout, super::layout() invoking hooks.
GenericLayoutOver(d, hooks, ptrSize) ==
  LET b0 == [NewBuilder(TRUE) EXCEPT
               !.Fields = [i \in 1..TemplateHeaderFieldCount |-> NullField]]
  IN FinishTemplate(RunBuilderLayout(b0, d, hooks, 1), d, ptrSize)

\* GenericMetadataBuilderBase::layout
GenericLayout(d, ptrSize) == GenericLayoutOver(d, LayoutOf(d), ptrSize)

\* A concrete builder that also pushes one entry per stored field.
ConcreteLayout_FieldEntries(d) ==
  LET b == RunBuilderLayout(NewBuilder(FALSE), d, LayoutOf(d), 1)
  IN [b EXCEPT !.status = "done",
               !.Fields = @ \o [i \in 1..d.fields |-> F("int", 0)]]

\* The layout() of a non-generic builder.
ConcreteLayout(d) ==
  [RunBuilderLayout(NewBuilder(FALSE), d, LayoutOf(d), 1) EXCEPT !.status = "done"]

\* emitClassMetadata / emitStructMetadata / emitEnumMetadata: the generic
\* builder when the declaration has generic parameters, else the concrete one.
BuildMetadata(d, ptrSize) ==
  IF IsGeneric(d) THEN GenericLayout(d, ptrSize) ELSE ConcreteLayout(d)

(***************************************************************************)
(* Metadata searchers.  A searcher is a metadata scanner (every hook       *)
(* advances NextIndex by one) in which one hook is overridden to compare  *)
(* its argument with the target.  ords records NextIndex at every hook    *)
(* invocation, in order; calls counts the getTargetIndex calls.            *)
(***************************************************************************)
NewSearcher(finder, target) ==
  [status |-> "new",
   finder |-> finder,
   target |-> target,
   NextIndex |-> 0,
   TargetIndex |-> InvalidIndex,
   AddressPoint |-> InvalidIndex,
   ords |-> <<>>,
   calls |-> 0,
   result |-> 0]

NoTarget == Hook("none", 0, 0)

IdleSearcher == NewSearcher("none", NoTarget)

\* The hook each Find* class overrides.
FinderHook(finder) ==
  CASE finder = "FindClassParentIndex" -> "addParentMetadataRef"
    [] finder = "FindClassArgumentIndex" -> "addGenericArgument"
    [] finder = "FindValueTypeArgumentIndex" -> "addGenericArgument"
    [] finder = "FindClassWitnessTableIndex" -> "addGenericWitnessTable"
    [] finder = "FindValueTypeWitnessTableIndex" -> "addGenericWitnessTable"
    [] finder = "FindClassFieldOffset" -> "addFieldOffset"
    [] finder = "FindClassMethodIndex" -> "addMethod"
    [] OTHER -> "none"

\* The comparison in the overridden hook (forClass is always TargetClass:
\* the layout runs the hooks of the target declaration).
Matches(s, hk) == hk.a = s.target.a /\ hk.p = s.target.p

\* A setTargetIndex that accepts a second match.
SetTargetIndex_Overwrites(s) == [s EXCEPT !.TargetIndex = s.NextIndex]

\* MetadataSearcher::setTargetIndex
SetTargetIndex(s) ==
  IF s.TargetIndex # InvalidIndex
  THEN [s EXCEPT !.status = "fatal"]     \* "setting twice"
  ELSE [s EXCEPT !.TargetIndex = s.NextIndex]

\* The scanner's hook: NextIndex++
ScannerHook(s) == [s EXCEPT !.NextIndex = @ + 1]

\* The overridden add* hook of a Find* class.
FindHook(s, hk) ==
  ScannerHook(IF Matches(s, hk) THEN SetTargetIndex(s) ELSE s)

\* MetadataSearcher::noteAddressPoint
SearcherNoteAddressPoint(s) == [s EXCEPT !.AddressPoint = s.NextIndex]

SearcherHook(s, hk) ==
  CASE hk.h = "noteAddressPoint" -> SearcherNoteAddressPoint(s)
    [] hk.h # "noteAddressPoint" /\ hk.h = FinderHook(s.finder) -> FindHook(s, hk)
    [] OTHER -> ScannerHook(s)

\* this->layout()
RECURSIVE RunSearcherLayout(_, _, _)
RunSearcherLayout(s, hooks, i) ==
  IF i > Len(hooks) \/ s.status = "fatal" THEN s
  ELSE RunSearcherLayout(
         SearcherHook([s EXCEPT !.ords = Append(@, s.NextIndex)], hooks[i]),
         hooks, i + 1)

\* MetadataSearcher::getTargetIndex on the searcher s0, this->layout()
\* invoking hooks.
GetTargetIndexOn(s0, hooks) ==
  LET s1 == [s0 EXCEPT !.calls = @ + 1]
      s == RunSearcherLayout(s1, hooks, 1)
  IN IF s1.TargetIndex # InvalidIndex
     THEN [s1 EXCEPT !.status = "fatal"]    \* "computing twice"
     ELSE IF s.status = "fatal" THEN s
     ELSE IF s.TargetIndex = InvalidIndex
     THEN [s EXCEPT !.status = "fatal"]     \* "target not found!"
     ELSE IF s.AddressPoint = InvalidIndex
     THEN [s EXCEPT !.status = "fatal"]     \* "address point not set"
     ELSE [s EXCEPT !.status = "done", !.result = s.TargetIndex - s.AddressPoint]

\* getTargetIndex on a newly constructed searcher of the declaration.
GetTargetIndex(d, finder, target) ==
  GetTargetIndexOn(NewSearcher(finder, target), LayoutOf(d))

(***************************************************************************)
(* Idle values of the override and reference subsystems.                   *)
(***************************************************************************)
IdleQuery == [asked |-> FALSE]

\* No function is being generated.
NoSession ==
  [id |-> 0, live |-> FALSE, LocalTypeData |-> <<>>, insts |-> <<>>, diags |-> 0]

OverrideIdle == query = IdleQuery /\ answer = FALSE
RefIdle == ty = [k |-> "BuiltinInteger"] /\ session = NoSession /\ refs = <<>>
FillIdle == record = <<>> /\ fills = <<>>

(***************************************************************************)
(* SpecLayout: a declaration is given; its metadata is emitted once and   *)
(* one field of its metadata is located, in either order.                  *)
(***************************************************************************)
InitLayout ==
  /\ decl \in Decls
  /\ PointerSize \in {4, 8}
  /\ traversal = LayoutOf(decl)
  /\ builder = NewBuilder(FALSE)
  /\ searcher = IdleSearcher
  /\ OverrideIdle
  /\ RefIdle
  /\ FillIdle

CanEmit(kind) == decl.kind = kind /\ builder.status = "new"

\* emitClassMetadata
EmitClassMetadata ==
  /\ CanEmit("class")
  /\ builder' = BuildMetadata(decl, PointerSize)
  /\ UNCHANGED <<decl, PointerSize, traversal, searcher, overrideVars, refVars, fillVars>>

\* emitStructMetadata
EmitStructMetadata ==
  /\ CanEmit("struct")
  /\ builder' = BuildMetadata(decl, PointerSize)
  /\ UNCHANGED <<decl, PointerSize, traversal, searcher, overrideVars, refVars, fillVars>>

\* emitEnumMetadata
EmitEnumMetadata ==
  /\ CanEmit("enum")
  /\ builder' = BuildMetadata(decl, PointerSize)
  /\ UNCHANGED <<decl, PointerSize, traversal, searcher, overrideVars, refVars, fillVars>>

Locate(finder, target) ==
  /\ searcher.status = "new"
  /\ searcher' = GetTargetIndex(decl, finder, target)
  /\ UNCHANGED <<decl, PointerSize, traversal, builder, overrideVars, refVars, fillVars>>

\* emitParentMetadataRef: a searcher for a class, the constant 2 for a
\* struct or an enum.
EmitParentMetadataRef ==
  \/ /\ decl.kind = "class"
     /\ Locate("FindClassParentIndex", Hook("addParentMetadataRef", 0, 0))
  \/ /\ decl.kind # "class"
     /\ searcher.status = "new"
     /\ searcher' = [IdleSearcher EXCEPT !.status = "done", !.result = 2]
     /\ UNCHANGED <<decl, PointerSize, traversal, builder, overrideVars, refVars, fillVars>>

\* emitArgumentMetadataRef
EmitArgumentMetadataRef ==
  \E argumentIndex \in 1..Len(decl.archetypes) :
    Locate(IF decl.kind = "class" THEN "FindClassArgumentIndex"
           ELSE "FindValueTypeArgumentIndex",
           Hook("addGenericArgument", argumentIndex, 0))

\* emitArgumentWitnessTableRef
EmitArgumentWitnessTableRef ==
  \E argumentIndex \in 1..Len(decl.archetypes), protocol \in 1..MaxProtocols :
    Locate(IF decl.kind = "class" THEN "FindClassWitnessTableIndex"
           ELSE "FindValueTypeWitnessTableIndex",
           Hook("addGenericWitnessTable", argumentIndex, protocol))

\* emitClassFieldOffset
EmitClassFieldOffset ==
  /\ decl.kind = "class"
  /\ \E field \in 1..MaxFields :
       Locate("FindClassFieldOffset", Hook("addFieldOffset", field, 0))

\* emitVirtualMethodValue: the searcher for the method's v-table slot.
EmitVirtualMethodValue ==
  /\ decl.kind = "class"
  /\ \E method \in 1..MaxMethods :
       Locate("FindClassMethodIndex", Hook("addMethod", method, 0))

NextLayout ==
  \/ EmitClassMetadata
  \/ EmitStructMetadata
  \/ EmitEnumMetadata
  \/ EmitParentMetadataRef
  \/ EmitArgumentMetadataRef
  \/ EmitArgumentWitnessTableRef
  \/ EmitClassFieldOffset
  \/ EmitVirtualMethodValue

SpecLayout == InitLayout /\ [][NextLayout]_vars

(***************************************************************************)
(* Properties of the builders and searchers (SpecLayout).                  *)
(***************************************************************************)
IsGenericHook(hk) == hk.h \in {"addGenericArgument", "addGenericWitnessTable"}

\* The indices, in the declaration's layout, of the generic-argument and
\* generic-witness-table hook invocations.
GenericHookIndices(d) ==
  { i \in 1..Len(LayoutOf(d)) : IsGenericHook(LayoutOf(d)[i]) }

\* The index of the noteAddressPoint invocation in the declaration's layout.
AddressPointHookIndex(d) ==
  CHOOSE i \in 1..Len(LayoutOf(d)) : LayoutOf(d)[i].h = "noteAddressPoint"

TemplateBuilt == builder.status = "done" /\ builder.isTemplate

\* The searcher has run the whole layout of the declaration.
SearcherRan ==
  /\ searcher.status \in {"done", "fatal"}
  /\ searcher.finder # "none"
  /\ Len(searcher.ords) = Len(LayoutOf(decl))

\* C1: for every declaration, generic or not, the builder and the searcher
\* assign the same ordinal to every hook invocation of the layout (the
\* builder's counted after the template header), and both note the address
\* point at the same ordinal.
C1_BuilderLocatorAgree ==
  (builder.status = "done" /\ SearcherRan) =>
    /\ Len(builder.ords) = Len(searcher.ords)
    /\ \A i \in 1..Len(searcher.ords) : builder.ords[i] = searcher.ords[i]
    /\ searcher.AddressPoint = builder.ords[AddressPointHookIndex(decl)]
    /\ builder.isTemplate => builder.AddressPoint = searcher.AddressPoint

\* A generic class with a field, a method and a located generic argument.
C1_Witness ==
  /\ TemplateBuilt
  /\ searcher.status = "done"
  /\ decl.kind = "class" /\ decl.fields > 0 /\ decl.methods > 0
  /\ searcher.finder = "FindClassArgumentIndex"
  /\ searcher.TargetIndex = builder.FillOps[1].ToIndex

\* C8: the header's address-point field of a built template is the ordinal
\* at which the traversal noted the address point, times the word size, and
\* the fill routine uses that same ordinal as the record's address point.
C8_HeaderAddressPoint ==
  TemplateBuilt =>
    LET addressPointSlot == builder.ords[AddressPointHookIndex(decl)]
    IN /\ builder.Fields[4] = F("int16", addressPointSlot * PointerSize)
       /\ builder.FillFunction.emitted
       /\ builder.FillFunction.AddressPoint = addressPointSlot

C8_Witness ==
  /\ TemplateBuilt
  /\ decl.kind = "class"
  /\ PointerSize = 8
  /\ builder.Fields[4].v = 40

\* C9: the header's size field of a built template is the number of fields
\* after the header, the dependent value-witness-table pattern included,
\* times the word size.
C9_HeaderSize ==
  TemplateBuilt =>
    LET finalSlotCount == Len(builder.Fields) - TemplateHeaderFieldCount
    IN /\ builder.Fields[2] = F("int32", finalSlotCount * PointerSize)
       /\ finalSlotCount =
            Len(LayoutOf(decl)) - 1
              + (IF decl.dependentVWT THEN VWTPatternLen ELSE 0)

C9_Witness ==
  /\ TemplateBuilt
  /\ builder.HasDependentVWT
  /\ builder.DependentVWTPoint > 0
  /\ Len(builder.Fields) =
       TemplateHeaderFieldCount + builder.DependentVWTPoint + VWTPatternLen

\* C10: a built template has one fill op per generic-argument or
\* generic-witness-table hook invocation; the k-th invocation's fill op has
\* source index k-1 and the invocation's slot as destination; the header's
\* argument count is the number of fill ops.
C10_FillOpsCount ==
  TemplateBuilt =>
    LET idx == GenericHookIndices(decl)
        rank(i) == Cardinality({ j \in idx : j < i })
    IN /\ Len(builder.FillOps) = Cardinality(idx)
       /\ \A i \in idx :
            builder.FillOps[rank(i) + 1] =
              [FromIndex |-> rank(i), ToIndex |-> builder.ords[i]]
       /\ \A k \in 1..Len(builder.FillOps) : builder.FillOps[k].FromIndex = k - 1
       /\ builder.Fields[3] = F("int16", Len(builder.FillOps))

C10_Witness ==
  /\ TemplateBuilt
  /\ Len(decl.archetypes) = 2
  /\ Len(builder.FillOps) = 4
  /\ builder.Fields[3].v = 4

\* C11: for a generic class with one archetype that has one conformance
\* requirement, the template has exactly two fill ops and the header's
\* argument count is 2; locating the archetype's generic-argument slot
\* yields an offset that is at least 0 and less than the number of fields
\* of the record.
C11_ScenarioB ==
  (decl.kind = "class" /\ decl.archetypes = <<1>>) =>
    /\ builder.status # "new" =>
         /\ TemplateBuilt
         /\ Len(builder.FillOps) = 2
         /\ builder.Fields[3] = F("int16", 2)
    /\ (searcher.finder = "FindClassArgumentIndex" /\ searcher.status # "new") =>
         LET total == Len(BuildMetadata(decl, PointerSize).Fields)
                        - TemplateHeaderFieldCount
         IN /\ searcher.status = "done"
            /\ searcher.result >= 0
            /\ searcher.result < total

C11_Witness ==
  /\ decl.kind = "class" /\ decl.archetypes = <<1>>
  /\ decl.fields = MaxFields /\ decl.methods = MaxMethods
  /\ TemplateBuilt
  /\ Len(builder.FillOps) = 2
  /\ searcher.finder = "FindClassArgumentIndex"
  /\ searcher.status = "done"
  /\ searcher.result = decl.fields + decl.methods

HeaderOrder ==
  /\ Len(builder.Fields) >= TemplateHeaderFieldCount
  /\ [i \in 1..TemplateHeaderFieldCount |-> builder.Fields[i].tag]
       = << "fillFunction", "int32", "int16", "int16", "privateData" >>
  /\ builder.FillFunction.emitted
  /\ builder.Fields[5] = F("privateData", 8)
  /\ FieldWidth(builder.Fields[5], PointerSize) = 8 * PointerSize
  /\ builder.ords[1] = 0
  /\ Len(builder.Fields) - TemplateHeaderFieldCount
       = Len(LayoutOf(decl)) - 1 + (IF decl.dependentVWT THEN VWTPatternLen ELSE 0)

\* C15 as stated: every built template, of a class, struct or enum, starts
\* with the five header fields fill function, size, argument count, address
\* point, 8-word private data, each of the first four one machine word
\* wide, and the laid-out fields follow immediately.
C15_HeaderWordFields ==
  TemplateBuilt =>
    /\ HeaderOrder
    /\ \A i \in 1..4 : FieldWidth(builder.Fields[i], PointerSize) = PointerSize

\* C15: every built template, of a class, struct or enum, starts with the
\* five header fields fill-function pointer (one word), size (32 bits),
\* argument count (16 bits), address point (16 bits), 8-word private data,
\* and the laid-out fields follow immediately.
C15_HeaderFields ==
  TemplateBuilt =>
    /\ HeaderOrder
    /\ [i \in 1..4 |-> FieldWidth(builder.Fields[i], PointerSize)]
         = << PointerSize, 4, 2, 2 >>

C15_Witness ==
  /\ TemplateBuilt
  /\ decl.kind = "enum"
  /\ PointerSize = 8
  /\ builder.Fields[2] = F("int32", 5 * 8)
  /\ builder.Fields[5] = GetPrivateDataInit

(***************************************************************************)
(* SpecTraversal: the template builder and a searcher driven by a          *)
(* traversal that need not be the layout of the declaration: one hook of  *)
(* the layout may be left out, or invoked once more.  The searcher is an  *)
(* object on which getTargetIndex may be called again.                     *)
(***************************************************************************)
\* The sequence without its i-th element.
RemoveAt(seq, i) == SubSeq(seq, 1, i - 1) \o SubSeq(seq, i + 1, Len(seq))

\* The sequence with x as its new i-th element.
InsertAt(seq, i, x) == SubSeq(seq, 1, i - 1) \o <<x>> \o SubSeq(seq, i, Len(seq))

\* The layout of d; the layout without one hook invocation; the layout
\* with one hook invoked once more, first of all or last of all.
Traversals(d) ==
  LET L == LayoutOf(d)
  IN {L}
     \cup {RemoveAt(L, i) : i \in 1..Len(L)}
     \cup {InsertAt(L, i, L[j]) : i \in {1, Len(L) + 1}, j \in 1..Len(L)}

\* The declarations driven through a traversal: generic ones, which are
\* built by the template builder.
TraversalDecls ==
  {d \in Decls : IsGeneric(d) /\ d.superclass = "none" /\ d.parentConstant
                 /\ d.fields = d.methods * (IF d.kind = "class" THEN 1 ELSE 0)}

InitTraversal ==
  /\ decl \in TraversalDecls
  /\ PointerSize = 8
  /\ traversal \in Traversals(decl)
  /\ builder = NewBuilder(TRUE)
  /\ searcher = IdleSearcher
  /\ OverrideIdle
  /\ RefIdle
  /\ FillIdle

\* GenericMetadataBuilderBase::layout over the traversal
TemplateLayout ==
  /\ builder.status = "new"
  /\ builder' = GenericLayoutOver(decl, traversal, PointerSize)
  /\ UNCHANGED <<decl, PointerSize, traversal, searcher, overrideVars, refVars, fillVars>>

\* The Find* classes of a declaration kind and the targets they are
\* constructed with.
Finders(d) ==
  IF d.kind = "class"
  THEN {<<"FindClassParentIndex", Hook("addParentMetadataRef", 0, 0)>>}
       \cup {<<"FindClassArgumentIndex", Hook("addGenericArgument", a, 0)>> :
               a \in 1..Len(d.archetypes)}
       \cup {<<"FindClassWitnessTableIndex", Hook("addGenericWitnessTable", a, p)>> :
               a \in 1..Len(d.archetypes), p \in 1..MaxProtocols}
       \cup {<<"FindClassFieldOffset", Hook("addFieldOffset", f, 0)>> :
               f \in 1..MaxFields}
       \cup {<<"FindClassMethodIndex", Hook("addMethod", m, 0)>> :
               m \in 1..MaxMethods}
  ELSE {<<"FindValueTypeArgumentIndex", Hook("addGenericArgument", a, 0)>> :
               a \in 1..Len(d.archetypes)}
       \cup {<<"FindValueTypeWitnessTableIndex", Hook("addGenericWitnessTable", a, p)>> :
               a \in 1..Len(d.archetypes), p \in 1..MaxProtocols}

\* A searcher is constructed and getTargetIndex is called on it.
Search ==
  /\ searcher.status = "new"
  /\ \E f \in Finders(decl) :
       searcher' = GetTargetIndexOn(NewSearcher(f[1], f[2]), traversal)
  /\ UNCHANGED <<decl, PointerSize, traversal, builder, overrideVars, refVars, fillVars>>

\* getTargetIndex is called again on the searcher that has returned.
SearchAgain ==
  /\ searcher.status = "done"
  /\ searcher' = GetTargetIndexOn(searcher, traversal)
  /\ UNCHANGED <<decl, PointerSize, traversal, builder, overrideVars, refVars, fillVars>>

NextTraversal ==
  \/ TemplateLayout
  \/ Search
  \/ SearchAgain

SpecTraversal == InitTraversal /\ [][NextTraversal]_vars

(***************************************************************************)
(* Properties of traversals (SpecTraversal).                               *)
(***************************************************************************)
\* The invocations of noteAddressPoint in a traversal.
AddressPointNotes(hooks) ==
  {i \in 1..Len(hooks) : hooks[i].h = "noteAddressPoint"}

\* The ordinal of the i-th hook invocation: the number of field hooks
\* invoked before it.
SlotOf(hooks, i) ==
  Cardinality({j \in 1..(i - 1) : hooks[j].h # "noteAddressPoint"})

\* The invocations at which the searcher's match predicate fires.
Firings(s, hooks) ==
  {i \in 1..Len(hooks) : /\ hooks[i].h = FinderHook(s.finder)
                         /\ hooks[i].a = s.target.a
                         /\ hooks[i].p = s.target.p}

\* C13: over a traversal that notes the address point zero times, or more
\* than once, the template builder yields no finished template and the
\* searcher returns no offset: each one, once run, has failed fatally.
C13_AddressPointOnce ==
  Cardinality(AddressPointNotes(traversal)) # 1 =>
    /\ builder.status \in {"new", "fatal"}
    /\ searcher.status \in {"new", "fatal"}

\* C14: a getTargetIndex that returns, returns the ordinal at which the
\* match predicate fired minus the ordinal of the address point; when the
\* predicate fires never or twice, or getTargetIndex is called again on the
\* searcher, the call fails fatally.
C14_TargetIndex ==
  (searcher.finder # "none" /\ searcher.status # "new") =>
    LET fires == Firings(searcher, traversal)
        notes == AddressPointNotes(traversal)
    IN /\ (searcher.status = "done" /\ searcher.calls = 1) =>
            /\ Cardinality(fires) = 1
            /\ notes # {}
            /\ \E i \in fires : \E n \in notes :
                 /\ \A m \in notes : m <= n
                 /\ searcher.result = SlotOf(traversal, i) - SlotOf(traversal, n)
       /\ Cardinality(fires) # 1 => searcher.status = "fatal"
       /\ searcher.calls > 1 => searcher.status = "fatal"

\* The parent slot of a class was located before the address point, and a
\* second getTargetIndex on the same searcher failed.
C14_Witness ==
  /\ searcher.finder = "FindClassParentIndex"
  /\ traversal = LayoutOf(decl)
  /\ searcher.calls = 2
  /\ searcher.status = "fatal"
  /\ searcher.result = -2

(***************************************************************************)
(* The emitted fill routine.  fill_generic_metadata(fullMeta, args) is a   *)
(* straight line of instructions: for every fill op a load of the word    *)
(* FromIndex of args and a store of it to the word ToIndex of fullMeta;   *)
(* with a dependent value-witness table, a store of the table's address   *)
(* to the word before the address point and a call of the kind's          *)
(* initializer.  An invocation is at instruction pc, holding in tmp the   *)
(* word it last loaded.  Words of the record are indexed from 0.          *)
(***************************************************************************)
MaxFillInvocations == 2

\* The instructions of the routine emitted for the fill function fn.
FillProgram(fn) ==
  LET copies(k) == << [op |-> "load", from |-> fn.FillOps[k].FromIndex],
                      [op |-> "store", to |-> fn.FillOps[k].ToIndex] >>
      Copies[k \in 0..Len(fn.FillOps)] ==
        IF k = 0 THEN <<>> ELSE Copies[k - 1] \o copies(k)
  IN Copies[Len(fn.FillOps)]
     \o (IF fn.HasDependentVWT
         THEN << [op |-> "storeVWT", to |-> fn.AddressPoint - 1,
                  vwt |-> fn.DependentVWTPoint],
                 [op |-> "initializeVWT", vwt |-> fn.DependentVWTPoint] >>
         ELSE <<>>)

\* The argument buffer of an instantiation: one word per generic argument
\* and witness table.
ArgumentBuffer(n) == [i \in 1..n |-> F("arg", i - 1)]

\* The output record the runtime hands to the fill routine: a copy of the
\* template's fields after the header.
RecordOfTemplate(b) ==
  [i \in 1..(Len(b.Fields) - TemplateHeaderFieldCount) |->
     b.Fields[TemplateHeaderFieldCount + i]]

IdleInvocation == [pc |-> 0, tmp |-> NullField]

\* A store that increments the destination word instead of copying the
\* loaded one.
ExecuteFillInstruction_CountsStores(rec, inv, instr, args) ==
  CASE instr.op = "load" ->
         [rec |-> rec, inv |-> [pc |-> inv.pc + 1, tmp |-> args[instr.from + 1]]]
    [] instr.op = "store" ->
         [rec |-> [rec EXCEPT ![instr.to + 1] = F("arg", rec[instr.to + 1].v + 1)],
          inv |-> [inv EXCEPT !.pc = @ + 1]]
    [] OTHER -> [rec |-> rec, inv |-> [inv EXCEPT !.pc = @ + 1]]

\* One instruction of the routine, executed by invocation inv on record rec.
ExecuteFillInstruction(rec, inv, instr, args) ==
  CASE instr.op = "load" ->
         [rec |-> rec, inv |-> [pc |-> inv.pc + 1, tmp |-> args[instr.from + 1]]]
    [] instr.op = "store" ->
         [rec |-> [rec EXCEPT ![instr.to + 1] = inv.tmp],
          inv |-> [inv EXCEPT !.pc = @ + 1]]
    [] instr.op = "storeVWT" ->
         [rec |-> [rec EXCEPT ![instr.to + 1] = F("vwtAddr", instr.vwt)],
          inv |-> [inv EXCEPT !.pc = @ + 1]]
    [] instr.op = "initializeVWT" ->
         [rec |-> [i \in 1..Len(rec) |->
                     IF i > instr.vwt THEN F("vwtInit", i - instr.vwt) ELSE rec[i]],
          inv |-> [inv EXCEPT !.pc = @ + 1]]

\* The record after one whole invocation of the routine from instruction k.
RECURSIVE RunFillFrom(_, _, _, _)
RunFillFrom(rec, inv, program, args) ==
  IF inv.pc > Len(program) THEN rec
  ELSE LET r == ExecuteFillInstruction(rec, inv, program[inv.pc], args)
       IN RunFillFrom(r.rec, r.inv, program, args)

RunFill(rec, fn) ==
  RunFillFrom(rec, [pc |-> 1, tmp |-> NullField], FillProgram(fn),
              ArgumentBuffer(Len(fn.FillOps)))

(***************************************************************************)
(* SpecFill: the template of a generic declaration has been emitted; the   *)
(* runtime invokes its fill routine on one output record with one         *)
(* argument buffer, up to MaxFillInvocations times, the invocations       *)
(* interleaving instruction by instruction.                                *)
(***************************************************************************)
FillDecls ==
  {d \in Decls : IsGeneric(d) /\ d.fields = 0 /\ d.methods = 0
                 /\ d.superclass = "none" /\ d.parentConstant}

InitFill ==
  /\ decl \in FillDecls
  /\ PointerSize = 8
  /\ traversal = LayoutOf(decl)
  /\ builder = BuildMetadata(decl, PointerSize)
  /\ searcher = IdleSearcher
  /\ record = RecordOfTemplate(builder)
  /\ fills = [i \in 1..MaxFillInvocations |-> IdleInvocation]
  /\ OverrideIdle
  /\ RefIdle

\* The runtime calls the fill routine.
InvokeFill(i) ==
  /\ fills[i].pc = 0
  /\ fills' = [fills EXCEPT ![i].pc = 1]
  /\ UNCHANGED <<layoutVars, overrideVars, refVars, record>>

\* Invocation i executes its next instruction.
FillStep(i) ==
  LET program == FillProgram(builder.FillFunction)
  IN /\ fills[i].pc >= 1
     /\ fills[i].pc <= Len(program)
     /\ LET r == ExecuteFillInstruction(record, fills[i], program[fills[i].pc],
                                        ArgumentBuffer(Len(builder.FillOps)))
        IN /\ record' = r.rec
           /\ fills' = [fills EXCEPT ![i] = r.inv]
     /\ UNCHANGED <<layoutVars, overrideVars, refVars>>

NextFill ==
  \/ \E i \in 1..MaxFillInvocations : InvokeFill(i)
  \/ \E i \in 1..MaxFillInvocations : FillStep(i)

SpecFill == InitFill /\ [][NextFill]_vars

(***************************************************************************)
(* Properties of the fill routine (SpecFill).                              *)
(***************************************************************************)
\* Invocation i has returned.
FillReturned(i) == fills[i].pc > Len(FillProgram(builder.FillFunction))

\* No invocation is between its call and its return, and one has returned.
FillsQuiescent ==
  /\ \A i \in 1..MaxFillInvocations : fills[i].pc = 0 \/ FillReturned(i)
  /\ \E i \in 1..MaxFillInvocations : FillReturned(i)

\* C16: for a template without a dependent value-witness table, whenever
\* the invocations of the fill routine on one record with one argument
\* buffer have all returned, however their instructions interleaved, the
\* record is what a single invocation makes of the template's record; and
\* the template itself is never changed.
C16_FillIdempotent ==
  /\ builder = BuildMetadata(decl, PointerSize)
  /\ (~builder.HasDependentVWT /\ FillsQuiescent) =>
       record = RunFill(RecordOfTemplate(builder), builder.FillFunction)

\* The second invocation of a routine of four fill ops has returned while
\* the first is between the load and the store of its second fill op.
C16_Witness ==
  /\ ~builder.HasDependentVWT
  /\ Len(builder.FillOps) = 4
  /\ fills[1].pc = 4
  /\ fills[1].tmp = F("arg", 1)
  /\ FillReturned(2)
  /\ record[Len(record)] = F("arg", 3)

\* The record after the copy of one fill op: its load, then its store.
CopyWord(rec, args, op) ==
  LET program == << [op |-> "load", from |-> op.FromIndex],
                    [op |-> "store", to |-> op.ToIndex] >>
  IN RunFillFrom(rec, [pc |-> 1, tmp |-> NullField], program, args)

\* C17: in a built template no two fill ops have the same destination, no
\* destination is the word before the address point (where the fill routine
\* stores the value-witness-table pointer) or a word of the tail dependent
\* value-witness-table region, and the copies of any two fill ops commute,
\* so that every order of the fill ops makes the same record.
C17_DistinctDestinations ==
  TemplateBuilt =>
    LET ops == builder.FillOps
        rec == RecordOfTemplate(builder)
        args == ArgumentBuffer(Len(ops))
    IN /\ \A j \in 1..Len(ops) : \A k \in 1..Len(ops) :
            j # k => ops[j].ToIndex # ops[k].ToIndex
       /\ \A k \in 1..Len(ops) :
            /\ ops[k].ToIndex # builder.AddressPoint - 1
            /\ ops[k].ToIndex >= 0 /\ ops[k].ToIndex < Len(rec)
            /\ builder.HasDependentVWT => ops[k].ToIndex < builder.DependentVWTPoint
       /\ \A j \in 1..Len(ops) : \A k \in 1..Len(ops) :
            CopyWord(CopyWord(rec, args, ops[j]), args, ops[k])
              = CopyWord(CopyWord(rec, args, ops[k]), args, ops[j])

C17_Witness ==
  /\ TemplateBuilt
  /\ builder.HasDependentVWT
  /\ Len(builder.FillOps) = 4
  /\ builder.FillOps[4].ToIndex = builder.DependentVWTPoint - 1

(***************************************************************************)
(* Canonical types.  A type is a record whose field k names its kind.      *)
(***************************************************************************)
IntTy == [k |-> "BuiltinInteger"]
ArchetypeTy == [k |-> "Archetype"]
ClassTy(name) == [k |-> "Class", name |-> name]
StructTy(name) == [k |-> "Struct", name |-> name]
TupleTy(elts) == [k |-> "Tuple", elts |-> elts]
FunctionTy(in, out) == [k |-> "Function", in |-> in, out |-> out]
MetaTypeTy(instance) == [k |-> "MetaType", instance |-> instance]
BoundGenericTy(d, args) == [k |-> "BoundGeneric", decl |-> d, args |-> args]
UnsupportedTy(kind) == [k |-> kind]

\* Does the type mention an archetype?
RECURSIVE HasArchetype(_)
HasArchetype(t) ==
  CASE t.k = "Archetype" -> TRUE
    [] t.k = "Tuple" -> \E i \in 1..Len(t.elts) : HasArchetype(t.elts[i])
    [] t.k = "Function" -> HasArchetype(t.in) \/ HasArchetype(t.out)
    [] t.k = "MetaType" -> HasArchetype(t.instance)
    [] t.k = "BoundGeneric" -> \E i \in 1..Len(t.args) : HasArchetype(t.args[i])
    [] OTHER -> FALSE

(***************************************************************************)
(* Override compatibility.                                                 *)
(*                                                                         *)
(* The calling-convention queries live outside GenMeta.cpp; they are      *)
(* modelled as: a value is returned or passed indirectly iff it is not a  *)
(* class reference, a function or a metatype and its type mentions an     *)
(* archetype; two types differ by abstraction as an explosion iff one is  *)
(* indirect and the other is not or, for function types, their inputs or  *)
(* results differ so; in memory only function types can differ.           *)
(***************************************************************************)
IsAddressOnly(t) ==
  /\ t.k \in {"Archetype", "Tuple", "BoundGeneric"}
  /\ (t.k = "BoundGeneric" => t.decl.kind # "class")
  /\ HasArchetype(t)

\* IGM.requiresIndirectResult
RequiresIndirectResult(t, explosionLevel) == IsAddressOnly(t)

RECURSIVE DiffersByAbstractionInExplosion(_, _, _)
DiffersByAbstractionInExplosion(overridden, override, explosionLevel) ==
  IF overridden.k = "Function" /\ override.k = "Function"
  THEN \/ DiffersByAbstractionInExplosion(overridden.in, override.in, explosionLevel)
       \/ DiffersByAbstractionInExplosion(overridden.out, override.out, explosionLevel)
  ELSE IsAddressOnly(overridden) # IsAddressOnly(override)

DiffersByAbstractionInMemory(overridden, override) ==
  /\ overridden.k = "Function" /\ override.k = "Function"
  /\ DiffersByAbstractionInExplosion(overridden, override, "Minimal")

\* IsIncompatibleOverride::visitType
VisitType(overridden, override, explosionLevel, asExplosion) ==
  IF asExplosion
  THEN DiffersByAbstractionInExplosion(overridden, override, explosionLevel)
  ELSE DiffersByAbstractionInMemory(overridden, override)

\* The visitor with a tuple visit that examines the first pair of elements
\* only.
RECURSIVE IsIncompatibleOverride_FirstElement(_, _, _, _)
IsIncompatibleOverride_FirstElement(overridden, override, explosionLevel, asExplosion) ==
  IF override = overridden THEN FALSE
  ELSE CASE overridden.k = "Class" -> FALSE
         [] overridden.k = "BoundGeneric" ->
              IF overridden.decl.kind = "class" THEN FALSE
              ELSE VisitType(overridden, override, explosionLevel, asExplosion)
         [] overridden.k = "Tuple" ->
              IsIncompatibleOverride_FirstElement(overridden.elts[1],
                                                  override.elts[1],
                                                  explosionLevel, asExplosion)
         [] OTHER -> VisitType(overridden, override, explosionLevel, asExplosion)

\* IsIncompatibleOverride::visit and the visit* methods it dispatches to.
RECURSIVE IsIncompatibleOverride(_, _, _, _)
IsIncompatibleOverride(overridden, override, explosionLevel, asExplosion) ==
  IF override = overridden THEN FALSE
  ELSE CASE overridden.k = "Class" -> FALSE
         [] overridden.k = "BoundGeneric" ->
              IF overridden.decl.kind = "class" THEN FALSE
              ELSE VisitType(overridden, override, explosionLevel, asExplosion)
         [] overridden.k = "Tuple" ->
              \E i \in 1..Len(overridden.elts) :
                IsIncompatibleOverride(overridden.elts[i], override.elts[i],
                                       explosionLevel, asExplosion)
         [] OTHER -> VisitType(overridden, override, explosionLevel, asExplosion)

\* isIncompatibleOverrideArgument
IsIncompatibleOverrideArgument(overrideTy, overriddenTy, explosionLevel) ==
  IsIncompatibleOverride(overriddenTy, overrideTy, explosionLevel, TRUE)

\* isIncompatibleOverrideResult
IsIncompatibleOverrideResult(overrideTy, overriddenTy, explosionLevel) ==
  IF overrideTy = overriddenTy THEN FALSE
  ELSE IF ~RequiresIndirectResult(overriddenTy, explosionLevel)
  THEN IsIncompatibleOverride(overriddenTy, overrideTy, explosionLevel, TRUE)
  ELSE IF ~RequiresIndirectResult(overrideTy, explosionLevel)
  THEN TRUE
  ELSE IsIncompatibleOverride(overriddenTy, overrideTy, explosionLevel, FALSE)

\* The loop of isCompatibleOverride from the given types on; n is the
\* number of iterations left.
RECURSIVE CompatibleFrom(_, _, _, _)
CompatibleFrom(overrideTy, overriddenTy, explosionLevel, n) ==
  IF n = 0
  THEN IsIncompatibleOverrideResult(overrideTy, overriddenTy, explosionLevel)
  ELSE IF overrideTy = overriddenTy THEN TRUE
  ELSE IF IsIncompatibleOverrideArgument(overrideTy.in, overriddenTy.in,
                                         explosionLevel)
  THEN FALSE
  ELSE CompatibleFrom(overrideTy.out, overriddenTy.out, explosionLevel, n - 1)

\* The loop without its fast path.
RECURSIVE CompatibleFrom_NoFastPath(_, _, _, _)
CompatibleFrom_NoFastPath(overrideTy, overriddenTy, explosionLevel, n) ==
  IF n = 0
  THEN IsIncompatibleOverrideResult(overrideTy, overriddenTy, explosionLevel)
  ELSE IF IsIncompatibleOverrideArgument(overrideTy.in, overriddenTy.in,
                                         explosionLevel)
  THEN FALSE
  ELSE CompatibleFrom_NoFastPath(overrideTy.out, overriddenTy.out,
                                 explosionLevel, n - 1)

\* isCompatibleOverride with the fast path of its loop left out.
IsCompatibleOverride_NoFastPath(override, overridden, explosionLevel, uncurryLevel) ==
  CompatibleFrom_NoFastPath(override.ty, overridden.ty, explosionLevel,
                            uncurryLevel + 1)

\* isCompatibleOverride
IsCompatibleOverride(override, overridden, explosionLevel, uncurryLevel) ==
  CompatibleFrom(override.ty, overridden.ty, explosionLevel, uncurryLevel + 1)

\* hasKnownVTableEntry: the method's class is implemented natively.
HasKnownVTableEntry(method) == method.native

\* doesMethodRequireOverrideEntry: chain lists the declarations fn
\* overrides, nearest first (chain[i+1] is chain[i]'s overridden
\* declaration); i is the one under examination.
RECURSIVE RequiresEntryFrom(_, _, _, _, _)
RequiresEntryFrom(fn, chain, i, explosionLevel, uncurryLevel) ==
  IF i > Len(chain) THEN TRUE
  ELSE IF ~HasKnownVTableEntry(chain[i]) THEN TRUE
  ELSE IF IsCompatibleOverride(fn, chain[i], explosionLevel, uncurryLevel)
  THEN FALSE
  ELSE RequiresEntryFrom(fn, chain, i + 1, explosionLevel, uncurryLevel)

\* The walk with the two tests of an iteration exchanged: compatibility is
\* examined before the v-table entry.
RECURSIVE RequiresEntryFrom_CompatibilityFirst(_, _, _, _, _)
RequiresEntryFrom_CompatibilityFirst(fn, chain, i, explosionLevel, uncurryLevel) ==
  IF i > Len(chain) THEN TRUE
  ELSE IF IsCompatibleOverride(fn, chain[i], explosionLevel, uncurryLevel)
  THEN FALSE
  ELSE IF ~HasKnownVTableEntry(chain[i]) THEN TRUE
  ELSE RequiresEntryFrom_CompatibilityFirst(fn, chain, i + 1, explosionLevel,
                                            uncurryLevel)

DoesMethodRequireOverrideEntry_CompatibilityFirst(fn, chain, explosionLevel, uncurryLevel) ==
  RequiresEntryFrom_CompatibilityFirst(fn, chain, 1, explosionLevel, uncurryLevel)

DoesMethodRequireOverrideEntry(fn, chain, explosionLevel, uncurryLevel) ==
  RequiresEntryFrom(fn, chain, 1, explosionLevel, uncurryLevel)

(***************************************************************************)
(* Method declarations for the override check.  A method of class C has   *)
(* the curried type (C) -> (arg) -> result, natural uncurry level 1.  The *)
(* declarations of one override chain share a signature; a more derived   *)
(* declaration may have the archetype substituted by Int (its class then  *)
(* is not generic) and a class-typed result narrowed to the subclass.     *)
(* ObjCBase is a foreign class: its methods have no v-table entry.        *)
(***************************************************************************)
MaxChain == 2   \* declarations a method overrides, transitively

\* getNaturalArgumentCount() - 1 of a method with one parameter list
NaturalUncurryLevel == 1

ExplosionLevels == {"Minimal", "Maximal"}
UncurryLevels == 0..NaturalUncurryLevel

SigArgs == {IntTy, ArchetypeTy, TupleTy(<<IntTy, ArchetypeTy>>)}
SigResults == {IntTy, ArchetypeTy, ClassTy("Base")}
Sigs == [arg : SigArgs, res : SigResults]

RECURSIVE Subst(_, _, _)
Subst(t, substT, cov) ==
  CASE t.k = "Archetype" -> IF substT THEN IntTy ELSE t
    [] t.k = "Class" -> IF cov THEN ClassTy("Derived") ELSE t
    [] t.k = "Tuple" ->
         TupleTy([i \in 1..Len(t.elts) |-> Subst(t.elts[i], substT, cov)])
    [] OTHER -> t

ClassDeclNamed(name) == [kind |-> "class", name |-> name]

SelfTy(cls, inGenericClass) ==
  IF inGenericClass THEN BoundGenericTy(ClassDeclNamed(cls), <<ArchetypeTy>>)
  ELSE ClassTy(cls)

MethodTy(sig, m) ==
  FunctionTy(SelfTy(m.cls, ~m.substT),
             FunctionTy(Subst(sig.arg, m.substT, FALSE),
                        Subst(sig.res, m.substT, m.cov)))

MethodDecl(sig, m) ==
  [ty |-> MethodTy(sig, m), native |-> m.cls # "ObjCBase", cls |-> m.cls]

MethodParams ==
  { m \in [cls : {"Base", "Derived", "ObjCBase"}, substT : BOOLEAN, cov : BOOLEAN] :
      m.cls = "ObjCBase" => m.substT }

\* fn followed by the declarations it overrides: substitutions accumulate
\* towards the most derived declaration, which is native.
IsOverrideChain(ms) ==
  /\ ms[1].cls # "ObjCBase"
  /\ \A i \in 1..(Len(ms) - 1) :
       /\ ms[i + 1].substT => ms[i].substT
       /\ ms[i + 1].cov => ms[i].cov

OverrideChains ==
  { ms \in UNION { [1..n -> MethodParams] : n \in 2..(MaxChain + 1) } :
      IsOverrideChain(ms) }

Queries ==
  { [asked |-> FALSE,
     fn |-> MethodDecl(sig, ms[1]),
     chain |-> [i \in 1..(Len(ms) - 1) |-> MethodDecl(sig, ms[i + 1])],
     explosionLevel |-> "Minimal",
     uncurryLevel |-> 0] : sig \in Sigs, ms \in OverrideChains }

(***************************************************************************)
(* SpecOverride: a method and its override chain are given; the v-table   *)
(* layout asks once whether the method needs its own entry.                *)
(***************************************************************************)
IdleDecl ==
  [kind |-> "struct", fields |-> 0, methods |-> 0, archetypes |-> <<>>,
   dependentVWT |-> FALSE, superclass |-> "none", parentConstant |-> TRUE]

LayoutIdle ==
  /\ decl = IdleDecl
  /\ PointerSize = 8
  /\ traversal = <<>>
  /\ builder = NewBuilder(FALSE)
  /\ searcher = IdleSearcher

InitOverride ==
  /\ query \in Queries
  /\ answer = FALSE
  /\ LayoutIdle
  /\ RefIdle
  /\ FillIdle

\* doesMethodRequireOverrideEntry(IGM, fn, explosionLevel, uncurryLevel)
AskRequiresOverrideEntry ==
  /\ ~query.asked
  /\ \E explosionLevel \in ExplosionLevels, uncurryLevel \in UncurryLevels :
       /\ query' = [query EXCEPT !.asked = TRUE,
                                 !.explosionLevel = explosionLevel,
                                 !.uncurryLevel = uncurryLevel]
       /\ answer' = DoesMethodRequireOverrideEntry(query.fn, query.chain,
                                                   explosionLevel, uncurryLevel)
  /\ UNCHANGED <<layoutVars, refVars, fillVars>>

NextOverride == AskRequiresOverrideEntry

SpecOverride == InitOverride /\ [][NextOverride]_vars

\* The type left after peeling n parameter lists.
RECURSIVE Peel(_, _)
Peel(t, n) == IF n = 0 THEN t ELSE Peel(t.out, n - 1)


\* The method's only overridden declaration has a v-table entry.
OnlyOverriddenHasEntry ==
  query.asked /\ Len(query.chain) = 1 /\ HasKnownVTableEntry(query.chain[1])

\* C3: when the only overridden declaration has a v-table entry and, after
\* peeling the curried parameter lists, its result is passed indirectly
\* while the overriding method's result is passed directly, the method
\* requires an override entry.
C3_IndirectDirectRequiresEntry ==
  ( /\ OnlyOverriddenHasEntry
    /\ query.uncurryLevel = NaturalUncurryLevel
    /\ RequiresIndirectResult(Peel(query.chain[1].ty, 2), query.explosionLevel)
    /\ ~RequiresIndirectResult(Peel(query.fn.ty, 2), query.explosionLevel) )
  => answer = TRUE

\* The two method types differ in the class of self and in nothing else.
DifferOnlyInSelf(override, overridden) ==
  /\ override.ty.in # overridden.ty.in
  /\ override.ty.in.k = "Class" /\ overridden.ty.in.k = "Class"
  /\ override.ty.out = overridden.ty.out

\* C4: a method overriding a native class method, the two types differing
\* only in the class of the self parameter, requires no override entry,
\* for uncurry level 0 as for the natural uncurry level.
C4_SelfOnlyNoEntry ==
  ( /\ query.asked
    /\ HasKnownVTableEntry(query.chain[1])
    /\ DifferOnlyInSelf(query.fn, query.chain[1]) )
  => answer = FALSE

\* C5: isCompatibleOverride answers compatible for two declarations of
\* identical canonical type, at every explosion and uncurry level; a method
\* whose nearest overridden declaration has a v-table entry and the
\* identical type requires no override entry.
C5_Reflexive ==
  /\ \A i \in 1..Len(query.chain) :
       query.chain[i].ty = query.fn.ty =>
         \A e \in ExplosionLevels, u \in UncurryLevels :
           IsCompatibleOverride(query.fn, query.chain[i], e, u)
  /\ ( /\ query.asked
       /\ HasKnownVTableEntry(query.chain[1])
       /\ query.chain[1].ty = query.fn.ty )
     => answer = FALSE

C5_Witness ==
  /\ query.asked
  /\ HasKnownVTableEntry(query.chain[1])
  /\ query.chain[1].ty = query.fn.ty
  /\ query.uncurryLevel = 0
  /\ answer = FALSE

\* The answer isCompatibleOverride gives for fn against the i-th declaration
\* of the chain, at the levels the question was asked with.
CompatibleWith(i) ==
  IsCompatibleOverride(query.fn, query.chain[i], query.explosionLevel,
                       query.uncurryLevel)

\* C19: doesMethodRequireOverrideEntry compares fn against its overridden
\* declarations from the nearest to the root.  It answers false exactly
\* when some declaration of the chain is a compatible one and neither it nor
\* any declaration nearer to fn lacks a v-table entry; a declaration without
\* a v-table entry makes the answer true whenever no compatible declaration
\* was found nearer to fn, whatever fn's compatibility with it or with the
\* declarations above it; an exhausted chain makes the answer true.
C19_OverrideWalk ==
  query.asked =>
    /\ answer = ~(\E i \in 1..Len(query.chain) :
                    /\ CompatibleWith(i)
                    /\ \A j \in 1..i : HasKnownVTableEntry(query.chain[j]))
    /\ \A i \in 1..Len(query.chain) :
         ( /\ ~HasKnownVTableEntry(query.chain[i])
           /\ \A j \in 1..(i - 1) :
                HasKnownVTableEntry(query.chain[j]) /\ ~CompatibleWith(j) )
         => answer = TRUE
    /\ ( \A i \in 1..Len(query.chain) :
           HasKnownVTableEntry(query.chain[i]) /\ ~CompatibleWith(i) )
       => answer = TRUE

\* The walk stopped at the nearest declaration, a foreign one fn is
\* compatible with, below a second declaration of the chain.
C19_Witness ==
  /\ query.asked
  /\ Len(query.chain) = 2
  /\ ~HasKnownVTableEntry(query.chain[1])
  /\ CompatibleWith(1)
  /\ answer = TRUE

(***************************************************************************)
(* SpecCompat: the visitor IsIncompatibleOverride applied to one position *)
(* of an override.  The overriding type of a position is subtype-related  *)
(* to a substitution of the overridden type: the archetype may be         *)
(* replaced by Int, a class type by any class type, and a tuple by a      *)
(* tuple of as many elements.                                              *)
(***************************************************************************)
MaxPositionLen == 2   \* elements of a tuple position

StructDeclNamed(name) == [kind |-> "struct", name |-> name]

ClassPositionTypes ==
  {ClassTy("Base"), ClassTy("Derived"),
   BoundGenericTy(ClassDeclNamed("Base"), <<ArchetypeTy>>)}

\* <<overridden, override>> of a position that is not a tuple
ScalarPositions ==
  {<<IntTy, IntTy>>, <<ArchetypeTy, ArchetypeTy>>, <<ArchetypeTy, IntTy>>}
  \cup (ClassPositionTypes \X ClassPositionTypes)
  \cup {<<BoundGenericTy(StructDeclNamed("Box"), <<ArchetypeTy>>),
          BoundGenericTy(StructDeclNamed("Box"), <<a>>)>> :
          a \in {ArchetypeTy, IntTy}}
  \cup {<<FunctionTy(ArchetypeTy, ArchetypeTy), FunctionTy(a, a)>> :
          a \in {ArchetypeTy, IntTy}}

\* The tuple position whose elements are the given positions.
TuplePosition(ps) ==
  <<TupleTy([i \in 1..Len(ps) |-> ps[i][1]]),
    TupleTy([i \in 1..Len(ps) |-> ps[i][2]])>>

\* tuples nested in a tuple position
NestedPositions ==
  {TuplePosition(<<<<ArchetypeTy, IntTy>>, <<IntTy, IntTy>>>>),
   TuplePosition(<<<<ClassTy("Base"), ClassTy("Derived")>>, <<IntTy, IntTy>>>>)}

TuplePositions ==
  {TuplePosition(ps) :
     ps \in UNION {[1..n -> ScalarPositions \cup NestedPositions] :
                     n \in 1..MaxPositionLen}}

Positions == ScalarPositions \cup TuplePositions

InitCompat ==
  /\ query \in {[asked |-> FALSE, overridden |-> p[1], override |-> p[2],
                  explosionLevel |-> "Minimal", asExplosion |-> TRUE] :
                  p \in Positions}
  /\ answer = FALSE
  /\ LayoutIdle
  /\ RefIdle
  /\ FillIdle

\* IsIncompatibleOverride(IGM, explosionLevel, asExplosion)
\*   .visit(overriddenTy, overrideTy)
VisitPosition ==
  /\ ~query.asked
  /\ \E explosionLevel \in ExplosionLevels, asExplosion \in BOOLEAN :
       /\ query' = [query EXCEPT !.asked = TRUE,
                                 !.explosionLevel = explosionLevel,
                                 !.asExplosion = asExplosion]
       /\ answer' = IsIncompatibleOverride(query.overridden, query.override,
                                           explosionLevel, asExplosion)
  /\ UNCHANGED <<layoutVars, refVars, fillVars>>

NextCompat == VisitPosition

SpecCompat == InitCompat /\ [][NextCompat]_vars

IsClassPosition(t) ==
  \/ t.k = "Class"
  \/ t.k = "BoundGeneric" /\ t.decl.kind = "class"

\* The visitor's answer for the i-th pair of elements of the tuple position
\* under examination.
ElementIncompatible(i) ==
  IsIncompatibleOverride(query.overridden.elts[i], query.override.elts[i],
                         query.explosionLevel, query.asExplosion)

\* C20: a position whose overridden type is a class type or a bound generic
\* class type is compatible whatever class type overrides it; a tuple
\* position is incompatible if and only if the pair of elements at some
\* index is incompatible, and a pair of identical element types is
\* compatible.
C20_ClassAndTuplePositions ==
  query.asked =>
    /\ IsClassPosition(query.overridden) => answer = FALSE
    /\ query.overridden.k = "Tuple" =>
         /\ answer = (\E i \in 1..Len(query.overridden.elts) :
                        ElementIncompatible(i))
         /\ \A i \in 1..Len(query.overridden.elts) :
              ( \/ query.overridden.elts[i] = query.override.elts[i]
                \/ IsClassPosition(query.overridden.elts[i]) )
              => ~ElementIncompatible(i)
         /\ ( \A i \in 1..Len(query.overridden.elts) :
                \/ query.overridden.elts[i] = query.override.elts[i]
                \/ IsClassPosition(query.overridden.elts[i]) )
            => answer = FALSE

\* A tuple position found incompatible for its second pair of elements
\* alone, the first being a class type overridden by another class type.
C20_Witness ==
  /\ query.asked
  /\ query.asExplosion
  /\ query.overridden = TupleTy(<<ClassTy("Base"), ArchetypeTy>>)
  /\ query.override = TupleTy(<<ClassTy("Derived"), IntTy>>)
  /\ answer = TRUE

(***************************************************************************)
(* Metadata references.  st is the IRGenFunction: its id, its local type  *)
(* data (a function from the types bound in it to values), the            *)
(* instructions emitted into it and the number of diagnostics reported.   *)
(* A value is a global address, the result of an instruction of one       *)
(* session, a function parameter, a witness table, or undef.  The alloca  *)
(* and the stores that fill an argument buffer are folded into the call   *)
(* that takes the buffer.                                                  *)
(***************************************************************************)
NoValue == [k |-> "none"]
UndefValue == [k |-> "undef"]
GlobalValue(name, of) == [k |-> "global", name |-> name, of |-> of]
IntValue(n) == [k |-> "int", v |-> n]
BufferValue(words) == [k |-> "buffer", words |-> words]
NullValue == [k |-> "null"]

\* getTupleLabelsString of a tuple without labels, and the null witness
\* table every tuple entry point is passed last.
TupleTrailingArgs == <<NullValue, NullValue>>

Result(val, st) == [val |-> val, st |-> st]

\* IGF.Builder.CreateCall: the call is appended; its value is the call.
EmitCall(st, fn, args) ==
  LET st2 == [st EXCEPT !.insts = Append(@, [op |-> "call", fn |-> fn, args |-> args])]
  IN Result([k |-> "inst", sid |-> st.id, n |-> Len(st2.insts)], st2)

\* IGF.Builder.CreateLoad
EmitLoad(st, addr) ==
  LET st2 == [st EXCEPT !.insts = Append(@, [op |-> "load", fn |-> "", args |-> <<addr>>])]
  IN Result([k |-> "inst", sid |-> st.id, n |-> Len(st2.insts)], st2)

\* An unsupported type that is passed over without a diagnostic.
Unimplemented_Silent(st) == Result(UndefValue, st)

\* IGF.unimplemented, and the undef value the visitor returns after it
Unimplemented(st) == Result(UndefValue, [st EXCEPT !.diags = @ + 1])

\* IGF.tryGetLocalTypeData(type, LocalTypeData::Metatype)
TryGetLocal(st, t) ==
  IF t \in DOMAIN st.LocalTypeData THEN st.LocalTypeData[t] ELSE NoValue

\* EmitTypeMetadataRef::setLocal ("FIXME: Save scope type metadata")
SetLocal(st, t, metatype) == st


\* hasKnownSwiftMetadata: every class but the foreign one
HasKnownSwiftMetadata(t) == ~(t.k = "Class" /\ t.name = "ObjCBase")

UnsupportedKinds ==
  {"PolymorphicFunction", "GenericFunction", "Array", "Module",
   "ProtocolComposition", "ReferenceStorage", "GenericTypeParam",
   "DependentMember", "LValue"}

\* emitWitnessTableRefs for the substitution of archetype a: one witness
\* table per protocol the archetype conforms to, in order.
RECURSIVE WitnessTableRefs(_, _, _)
WitnessTableRefs(t, a, p) ==
  IF p > t.decl.archetypes[a] THEN <<>>
  ELSE << [for |-> Hook("addGenericWitnessTable", a, p),
           val |-> [k |-> "wtable", of |-> t.args[a], p |-> p]] >>
       \o WitnessTableRefs(t, a, p + 1)

RECURSIVE AllWitnessTableRefs(_, _)
AllWitnessTableRefs(t, a) ==
  IF a > Len(t.args) THEN <<>>
  ELSE WitnessTableRefs(t, a, 1) \o AllWitnessTableRefs(t, a + 1)

RECURSIVE Visit(_, _)
RECURSIVE VisitAll(_, _, _)

\* GenericArguments::collect: the metadata of every substitution, then the
\* witness tables of every substitution.  Each word of the result is
\* tagged with the archetype, or archetype and protocol, it is for.
Collect(t, st) ==
  LET r == VisitAll(t.args, 1, st)
  IN [vals |-> [i \in 1..Len(t.args) |->
                  [for |-> Hook("addGenericArgument", i, 0), val |-> r.vals[i]]]
               \o AllWitnessTableRefs(t, 1),
      st |-> r.st]

\* emitNominalMetadataRef
EmitNominalMetadataRef(t, st) ==
  IF ~HasKnownSwiftMetadata(t)
  THEN EmitCall(st, "swift_getObjCClassMetadata", <<GlobalValue("objcClass", t)>>)
  ELSE
    LET isPattern == t.k = "BoundGeneric"
        cache == IF isPattern THEN TryGetLocal(st, t) ELSE NoValue
        addr == GlobalValue(IF isPattern THEN "pattern" ELSE "metadata",
                            IF isPattern THEN t.decl ELSE t)
        m == IF IsMetadataIndirect(t) THEN EmitLoad(st, addr) ELSE Result(addr, st)
    IN IF cache # NoValue THEN Result(cache, st)
       ELSE IF ~isPattern THEN m
       ELSE LET genericArgs == Collect(t, m.st)
            IN EmitCall(genericArgs.st, "swift_getGenericMetadata",
                        <<m.val, BufferValue(genericArgs.vals)>>)

\* A visitTupleType without the singleton case: a one-element tuple takes
\* the variadic path.
VisitTupleType_NoSingleton(t, st) ==
  LET cached == TryGetLocal(st, t)
      r == VisitAll(t.elts, 1, st)
  IN IF cached # NoValue THEN Result(cached, st)
     ELSE LET call == EmitCall(r.st, "swift_getTupleMetadata",
                               <<IntValue(Len(t.elts)), BufferValue(r.vals)>>
                               \o TupleTrailingArgs)
          IN Result(call.val, SetLocal(call.st, t, call.val))

\* EmitTypeMetadataRef::visitTupleType
VisitTupleType(t, st) ==
  LET cached == TryGetLocal(st, t)
      n == Len(t.elts)
      r == VisitAll(t.elts, 1, st)
      call == CASE n = 2 -> EmitCall(r.st, "swift_getTupleMetadata2",
                                     r.vals \o TupleTrailingArgs)
                [] n = 3 -> EmitCall(r.st, "swift_getTupleMetadata3",
                                     r.vals \o TupleTrailingArgs)
                [] OTHER -> EmitCall(r.st, "swift_getTupleMetadata",
                                     <<IntValue(n), BufferValue(r.vals)>>
                                     \o TupleTrailingArgs)
  IN IF cached # NoValue THEN Result(cached, st)
     ELSE CASE n = 0 -> Result(GlobalValue("emptyTupleMetadata", t), st)
            [] n = 1 -> Visit(t.elts[1], st)
            [] OTHER -> Result(call.val, SetLocal(call.st, t, call.val))

\* EmitTypeMetadataRef::visitFunctionType
VisitFunctionType(t, st) ==
  LET metatype == TryGetLocal(st, t)
      arg == Visit(t.in, st)
      res == Visit(t.out, arg.st)
      call == EmitCall(res.st, "swift_getFunctionTypeMetadata", <<arg.val, res.val>>)
  IN IF metatype # NoValue THEN Result(metatype, st)
     ELSE Result(call.val, SetLocal(call.st, t, call.val))

\* EmitTypeMetadataRef::visitMetaTypeType
VisitMetaTypeType(t, st) ==
  LET metatype == TryGetLocal(st, t)
      inst == Visit(t.instance, st)
      call == EmitCall(inst.st, "swift_getMetatypeMetadata", <<inst.val>>)
  IN IF metatype # NoValue THEN Result(metatype, st)
     ELSE Result(call.val, SetLocal(call.st, t, call.val))

\* EmitTypeMetadataRef::visit
Visit(t, st) ==
  CASE t.k = "BuiltinInteger" -> Result(GlobalValue("metadata", t), st)
    [] t.k \in {"Class", "Struct", "BoundGeneric"} -> EmitNominalMetadataRef(t, st)
    [] t.k = "Tuple" -> VisitTupleType(t, st)
    [] t.k = "Function" -> VisitFunctionType(t, st)
    [] t.k = "MetaType" -> VisitMetaTypeType(t, st)
    [] t.k = "Archetype" -> Result(st.LocalTypeData[t], st)
    [] t.k \in UnsupportedKinds -> Unimplemented(st)

\* The elements ts[i..] in order, each in the state the one before left.
VisitAll(ts, i, st) ==
  IF i > Len(ts) THEN [vals |-> <<>>, st |-> st]
  ELSE LET r == Visit(ts[i], st)
           rest == VisitAll(ts, i + 1, r.st)
       IN [vals |-> <<r.val>> \o rest.vals, st |-> rest.st]

\* IRGenFunction::emitTypeMetadataRef
EmitTypeMetadataRefIn(t, st) == Visit(t, st)

(***************************************************************************)
(* The types a function refers to.                                         *)
(***************************************************************************)
MaxTupleLen == 4
MaxSessions == 2
MaxRefs == 3

\* The element types of the composite types.
ElementTypes == {IntTy, ArchetypeTy, ClassTy("ObjCBase"), UnsupportedTy("Module")}

LeafTypes ==
  {IntTy, ArchetypeTy, StructTy("S"), ClassTy("Base"), ClassTy("ObjCBase")}
  \cup {UnsupportedTy(kind) : kind \in UnsupportedKinds}

TupleTypes ==
  {TupleTy(elts) : elts \in UNION {[1..n -> ElementTypes] : n \in 0..MaxTupleLen}}

FunctionTypes == {FunctionTy(in, out) : in \in ElementTypes, out \in ElementTypes}

MetaTypeTypes == {MetaTypeTy(instance) : instance \in ElementTypes}

\* The generic declarations types are bound from: what a reference to the
\* type reads of the declaration is its kind and its archetypes.
BoundDecls ==
  {d \in Decls : /\ IsGeneric(d)
                 /\ d.fields = 0 /\ d.methods = 0 /\ ~d.dependentVWT
                 /\ d.superclass = "none" /\ d.parentConstant}

BoundGenericTypes ==
  UNION {{BoundGenericTy(d, args) :
            args \in [1..Len(d.archetypes) -> {IntTy, ArchetypeTy}]} : d \in BoundDecls}

CompositeTypes ==
  {t \in TupleTypes : Len(t.elts) # 1} \cup FunctionTypes \cup MetaTypeTypes
  \cup BoundGenericTypes

\* Composite types of composite types: singleton tuples, tuples of
\* tuples, metatypes of tuples.
NestedTypes ==
  {TupleTy(<<t>>) : t \in LeafTypes \cup CompositeTypes}
  \cup UNION {{TupleTy(<<IntTy, UnsupportedTy(kind)>>),
               TupleTy(<<UnsupportedTy(kind), IntTy, ArchetypeTy>>),
               TupleTy(<<IntTy, UnsupportedTy(kind), IntTy, UnsupportedTy(kind)>>),
               FunctionTy(UnsupportedTy(kind), IntTy),
               FunctionTy(ArchetypeTy, UnsupportedTy(kind))} :
                 kind \in UnsupportedKinds}
  \cup {TupleTy(<<TupleTy(<<t>>)>>) : t \in ElementTypes}
  \cup {TupleTy(<<TupleTy(<<IntTy, t>>), t>>) : t \in ElementTypes}
  \cup {MetaTypeTy(TupleTy(<<IntTy, t>>)) : t \in ElementTypes}

RefTypes == LeafTypes \cup CompositeTypes \cup NestedTypes

(***************************************************************************)
(* Sessions: one IRGenFunction at a time emits references to ty.           *)
(***************************************************************************)
InitRef ==
  /\ ty \in RefTypes
  /\ session = NoSession
  /\ refs = <<>>
  /\ LayoutIdle
  /\ OverrideIdle
  /\ FillIdle

\* IRGenFunction::IRGenFunction.  The prologue of a function with generic
\* parameters binds the metadata of its archetype to a parameter before
\* any reference is emitted; a function that refers to the archetype is
\* such a function.
BeginFunction(isGeneric) ==
  /\ ~session.live
  /\ session.id < MaxSessions
  /\ HasArchetype(ty) => isGeneric
  /\ session' = [id |-> session.id + 1,
                 live |-> TRUE,
                 LocalTypeData |->
                   IF isGeneric
                   THEN [x \in {ArchetypeTy} |-> [k |-> "param", sid |-> session.id + 1]]
                   ELSE <<>>,
                 insts |-> <<>>,
                 diags |-> 0]
  /\ UNCHANGED <<layoutVars, overrideVars, fillVars, ty, refs>>

\* IRGenFunction::~IRGenFunction: the local type data is destroyed.
EndFunction ==
  /\ session.live
  /\ session' = [session EXCEPT !.live = FALSE, !.LocalTypeData = <<>>]
  /\ UNCHANGED <<layoutVars, overrideVars, fillVars, ty, refs>>

\* IRGenFunction::emitTypeMetadataRef(ty), with what it was called in and
\* what it returned and left recorded.
EmitTypeMetadataRef ==
  /\ session.live
  /\ Len(refs) < MaxRefs
  /\ LET r == EmitTypeMetadataRefIn(ty, session)
     IN /\ session' = r.st
        /\ refs' = Append(refs, [ty |-> ty, pre |-> session, value |-> r.val,
                                 post |-> r.st])
  /\ UNCHANGED <<layoutVars, overrideVars, fillVars, ty>>

NextRef ==
  \/ \E isGeneric \in BOOLEAN : BeginFunction(isGeneric)
  \/ EndFunction
  \/ EmitTypeMetadataRef

SpecRef == InitRef /\ [][NextRef]_vars

(***************************************************************************)
(* Properties of metadata references (SpecRef).                            *)
(***************************************************************************)
\* The instructions a recorded call appended to its session.
EmittedBy(r) == SubSeq(r.post.insts, Len(r.pre.insts) + 1, Len(r.post.insts))

\* The generic-argument or generic-witness-table hook invocation whose slot
\* is the destination of the fill op of template b with source index i.
FillDestination(d, b, i) ==
  LET op == CHOOSE op \in {b.FillOps[k] : k \in 1..Len(b.FillOps)} : op.FromIndex = i
      j == CHOOSE j \in GenericHookIndices(d) : b.ords[j] = op.ToIndex
  IN LayoutOf(d)[j]

\* C2: in every call of the generic-metadata-instantiation entry point, the
\* argument buffer has one word per fill op of the bound declaration's
\* template, and the word at index i is the value for the archetype, or
\* (archetype, protocol) pair, whose slot the fill op with source index i
\* fills.
C2_ArgumentBufferOrder ==
  \A n \in 1..Len(refs) :
    \A m \in 1..Len(refs[n].post.insts) :
      LET inst == refs[n].post.insts[m]
      IN inst.fn = "swift_getGenericMetadata" =>
           LET d == inst.args[1].of
               b == BuildMetadata(d, PointerSize)
               words == inst.args[2].words
           IN /\ Len(words) = Len(b.FillOps)
              /\ \A i \in 1..Len(words) : words[i].for = FillDestination(d, b, i - 1)

\* The types whose references the local type data is consulted for.
IsCachedKind(t) ==
  \/ t.k \in {"BoundGeneric", "Function", "MetaType"}
  \/ t.k = "Tuple" /\ Len(t.elts) >= 2

\* C6: of two references to the same generic nominal, tuple (of two or more
\* elements), function or metatype type in one session, the second returns
\* the value of the first and emits nothing; a reference in another session
\* returns a value of its own session.
C6_CachingLaw ==
  \A i \in 1..Len(refs) : \A j \in 1..Len(refs) :
    (i < j /\ refs[i].ty = refs[j].ty /\ IsCachedKind(refs[i].ty)) =>
      IF refs[i].pre.id = refs[j].pre.id
      THEN /\ refs[j].value = refs[i].value
           /\ EmittedBy(refs[j]) = <<>>
      ELSE /\ refs[j].value # refs[i].value
           /\ refs[j].value.k = "inst" => refs[j].value.sid = refs[j].pre.id

\* C7: a reference to a one-element tuple returns the value, and leaves the
\* session in the state, that a reference to its element type made in the
\* same state does; no tuple constructor is called for one element.
C7_SingletonTuple ==
  \A n \in 1..Len(refs) :
    LET r == refs[n]
    IN (r.ty.k = "Tuple" /\ Len(r.ty.elts) = 1) =>
         LET direct == EmitTypeMetadataRefIn(r.ty.elts[1], r.pre)
         IN /\ r.value = direct.val
            /\ r.post = direct.st
            /\ \A m \in 1..Len(EmittedBy(r)) :
                 EmittedBy(r)[m].fn = "swift_getTupleMetadata" =>
                   EmittedBy(r)[m].args[1] # IntValue(1)

\* A reference to ((Int, T)) returned the call that constructs (Int, T).
C7_Witness ==
  \E n \in 1..Len(refs) :
    /\ refs[n].ty = TupleTy(<<TupleTy(<<IntTy, ArchetypeTy>>)>>)
    /\ refs[n].value.k = "inst"
    /\ Len(EmittedBy(refs[n])) = 1
    /\ EmittedBy(refs[n])[1].fn = "swift_getTupleMetadata2"

\* The occurrences of unsupported types in a type.
RECURSIVE CountUnsupported(_)
CountUnsupported(t) ==
  LET SumOver(ts) ==
        LET S[i \in 0..Len(ts)] ==
              IF i = 0 THEN 0 ELSE S[i - 1] + CountUnsupported(ts[i])
        IN S[Len(ts)]
  IN CASE t.k \in UnsupportedKinds -> 1
       [] t.k = "Tuple" -> SumOver(t.elts)
       [] t.k = "Function" -> CountUnsupported(t.in) + CountUnsupported(t.out)
       [] t.k = "MetaType" -> CountUnsupported(t.instance)
       [] t.k = "BoundGeneric" -> SumOver(t.args)
       [] OTHER -> 0

\* The value a reference to t passes on for an element e of t.
PlaceholderIf(e, v) == e.k \in UnsupportedKinds => v = UndefValue

\* C18: a reference to an unsupported type reports one diagnostic, returns
\* the undef placeholder and emits nothing; a reference to a tuple or
\* function type with unsupported elements still returns the call that
\* constructs the type, with the placeholder in the position of each such
\* element and one diagnostic for each.
C18_Unsupported ==
  \A n \in 1..Len(refs) :
    LET r == refs[n]
        emitted == EmittedBy(r)
        last == emitted[Len(emitted)]
        elementValues == IF Len(r.ty.elts) <= 3 THEN last.args
                         ELSE last.args[2].words
    IN /\ r.post.diags = r.pre.diags + CountUnsupported(r.ty)
       /\ r.ty.k \in UnsupportedKinds =>
            /\ r.value = UndefValue
            /\ r.post.diags = r.pre.diags + 1
            /\ emitted = <<>>
       /\ (r.ty.k = "Tuple" /\ Len(r.ty.elts) >= 2) =>
            /\ r.value = [k |-> "inst", sid |-> r.pre.id, n |-> Len(r.post.insts)]
            /\ last.op = "call"
            /\ \A i \in 1..Len(r.ty.elts) :
                 PlaceholderIf(r.ty.elts[i], elementValues[i])
       /\ r.ty.k = "Function" =>
            /\ r.value = [k |-> "inst", sid |-> r.pre.id, n |-> Len(r.post.insts)]
            /\ last.fn = "swift_getFunctionTypeMetadata"
            /\ PlaceholderIf(r.ty.in, last.args[1])
            /\ PlaceholderIf(r.ty.out, last.args[2])

\* A reference to (Int, U, Int, U), U a dependent member type, returned the
\* tuple constructor's call after two diagnostics.
C18_Witness ==
  \E n \in 1..Len(refs) :
    /\ refs[n].ty = TupleTy(<<IntTy, UnsupportedTy("DependentMember"),
                              IntTy, UnsupportedTy("DependentMember")>>)
    /\ refs[n].value.k = "inst"
    /\ refs[n].post.diags = refs[n].pre.diags + 2
    /\ Len(EmittedBy(refs[n])) = 1
    /\ EmittedBy(refs[n])[1].args[2].words[2] = UndefValue

(***************************************************************************)
(* Class v-tables.  The methods of the target class and of its ancestors  *)
(* are listed from the root class to the target class, in declaration     *)
(* order within a class; a method is given by the class declaring it      *)
(* (1 is the root) and the method it directly overrides (0: none), which  *)
(* is a method of a proper ancestor.  Along one superclass chain a method *)
(* is directly overridden by at most one method.                           *)
(***************************************************************************)
MaxClasses == 3   \* classes of a superclass chain, the target included
MaxDecls == 3     \* methods declared along the chain

IsClassChain(ms, target) ==
  \A i \in 1..Len(ms) :
    /\ ms[i].cls <= target
    /\ i > 1 => ms[i - 1].cls <= ms[i].cls
    /\ ms[i].overridden # 0 =>
         /\ ms[i].overridden < i
         /\ ms[ms[i].overridden].cls < ms[i].cls
         /\ \A j \in 1..Len(ms) :
              ms[j].overridden = ms[i].overridden => j = i

ClassChains(target) ==
  { ms \in UNION { [1..k -> [cls : 1..MaxClasses, overridden : 0..MaxDecls]] :
                     k \in 0..MaxDecls } :
      IsClassChain(ms, target) }

\* The shapes of the superclass type of a class that has one.
SuperclassTypes == {"constant", "foreign", "deferred", "genericContext"}

\* The target class of a v-table: a class declaration with its members.
VTableDecl(ms, target, generic, fields, superclass, parentConstant) ==
  [kind |-> "class", fields |-> fields, methods |-> Len(ms),
   archetypes |-> IF generic THEN <<0>> ELSE <<>>,
   dependentVWT |-> FALSE,
   superclass |-> superclass,
   parentConstant |-> parentConstant,
   members |-> ms, target |-> target]

VTableDecls ==
  UNION { { VTableDecl(ms, target, generic, fields, superclass, parentConstant) :
              ms \in ClassChains(target), generic \in BOOLEAN, fields \in 0..1,
              superclass \in IF target = 1 THEN {"none"} ELSE SuperclassTypes,
              parentConstant \in BOOLEAN } :
            target \in 1..MaxClasses }

\* cls->getMembers() of the class, FuncDecls only, in declaration order
MembersOf(d, cls) ==
  SelectSeq([i \in 1..Len(d.members) |-> i], LAMBDA i : d.members[i].cls = cls)

\* The functions computeFinalOverriders visits, in order: the members of
\* the target class, then those of each superclass up to the root.
RECURSIVE VisitedFrom(_, _)
VisitedFrom(d, cls) ==
  IF cls = 0 THEN <<>> ELSE MembersOf(d, cls) \o VisitedFrom(d, cls - 1)

\* The loop body with every function made its own final overrider.
VisitMember_AlwaysOwn(d, map, fn) ==
  LET m1 == [map EXCEPT ![fn] = fn]
      overridden == d.members[fn].overridden
  IN IF overridden # 0 /\ m1[overridden] = 0
     THEN [m1 EXCEPT ![overridden] = m1[fn]]
     ELSE m1

\* The body of the loop over the members: FinalOverriders[fn] creates an
\* empty entry, an empty entry is set to fn, and insert() leaves an
\* existing entry of the overridden function alone.  0 is no entry.
VisitMember(d, map, fn) ==
  LET m1 == IF map[fn] = 0 THEN [map EXCEPT ![fn] = fn] ELSE map
      overridden == d.members[fn].overridden
  IN IF overridden # 0 /\ m1[overridden] = 0
     THEN [m1 EXCEPT ![overridden] = m1[fn]]
     ELSE m1

RECURSIVE VisitMembers(_, _, _, _)
VisitMembers(d, map, fns, i) ==
  IF i > Len(fns) THEN map
  ELSE VisitMembers(d, VisitMember(d, map, fns[i]), fns, i + 1)

\* ClassMetadataBuilderBase::computeFinalOverriders
ComputeFinalOverriders(d) ==
  VisitMembers(d, [i \in 1..Len(d.members) |-> 0], VisitedFrom(d, d.target), 1)

NoOffset == -1   \* a witness-table-offset variable without initializer

\* The constructor of the class builder; the generic adapter reserves the
\* template header before the layout runs.
NewClassBuilder(d) ==
  [status |-> "new",
   isTemplate |-> IsGeneric(d),
   Fields |-> IF IsGeneric(d)
              THEN [i \in 1..TemplateHeaderFieldCount |-> NullField]
              ELSE <<>>,
   AddressPoint |-> 0,
   NumGenericWitnesses |-> 0,
   FillOps |-> <<>>,
   HasDependentVWT |-> FALSE,
   DependentVWTPoint |-> 0,
   FillFunction |-> NoFillFunction,
   ords |-> <<>>,
   FinalOverriders |-> ComputeFinalOverriders(d),
   WitnessTableOffsets |-> [i \in 1..Len(d.members) |-> NoOffset]]

\* An addMethod that records the offset after the header only.
\* Fields.size() * IGM.getPointerSize()
WitnessTableOffset(b, ptrSize) == Len(b.Fields) * ptrSize

\* ClassMetadataBuilderBase::addMethod
AddMethod(b, d, fn, ptrSize) ==
  LET b1 == IF d.members[fn].cls = d.target
            THEN [b EXCEPT !.WitnessTableOffsets[fn] = WitnessTableOffset(b, ptrSize)]
            ELSE b
  IN IF b.FinalOverriders[fn] = 0
     THEN [b1 EXCEPT !.status = "fatal"]   \* it != FinalOverriders.end()
     ELSE Push(b1, F("function", b.FinalOverriders[fn]))

\* One hook invocation on the class builder.
ClassHook(b, d, hk, ptrSize) ==
  IF hk.h = "addMethod" THEN AddMethod(b, d, hk.a, ptrSize)
  ELSE BuilderHook(b, d, hk)

RECURSIVE RunClassLayout(_, _, _, _, _)
RunClassLayout(b, d, hooks, i, ptrSize) ==
  IF i > Len(hooks) \/ b.status = "fatal" THEN b
  ELSE RunClassLayout(
         ClassHook([b EXCEPT !.ords = Append(@, BuilderNextIndex(b))],
                   d, hooks[i], ptrSize),
         d, hooks, i + 1, ptrSize)

\* emitClassMetadata: the builder is constructed and laid out.
BuildClassMetadata(d, hooks, ptrSize) ==
  LET b == RunClassLayout(NewClassBuilder(d), d, hooks, 1, ptrSize)
  IN IF b.status = "fatal" THEN b
     ELSE IF IsGeneric(d) THEN FinishTemplate(b, d, ptrSize)
     ELSE [b EXCEPT !.status = "done"]

\* The layout of the class with addMethod invoked for the given methods.
ClassLayoutWithMethods(d, fns) ==
  << Hook("addMetadataFlags", 0, 0),
     Hook("addValueWitnessTable", 0, 0),
     Hook("addDestructorFunction", 0, 0),
     Hook("addParentMetadataRef", 0, 0),
     Hook("addSuperClass", 0, 0),
     Hook("noteAddressPoint", 0, 0) >>
  \o [i \in 1..d.fields |-> Hook("addFieldOffset", i, 0)]
  \o [i \in 1..Len(fns) |-> Hook("addMethod", fns[i], 0)]
  \o GenericFieldHooks(d.archetypes, 1)

\* The methods the layout gives an entry, root class first: every method,
\* or the methods that override nothing.
MethodLists(d) ==
  { SelectSeq([i \in 1..Len(d.members) |-> i], LAMBDA i : i \in S) :
      S \in { 1..Len(d.members),
              { i \in 1..Len(d.members) : d.members[i].overridden = 0 } } }

(***************************************************************************)
(* SpecVTable: the metadata of a class with methods is emitted once and   *)
(* the v-table slot of one of its methods is located, in either order.    *)
(***************************************************************************)
InitVTable ==
  /\ decl \in VTableDecls
  /\ PointerSize \in {4, 8}
  /\ traversal \in { ClassLayoutWithMethods(decl, fns) : fns \in MethodLists(decl) }
  /\ builder = NewBuilder(FALSE)
  /\ searcher = IdleSearcher
  /\ OverrideIdle
  /\ RefIdle
  /\ FillIdle

\* emitClassMetadata
EmitClassVTable ==
  /\ builder.status = "new"
  /\ builder' = BuildClassMetadata(decl, traversal, PointerSize)
  /\ UNCHANGED <<decl, PointerSize, traversal, searcher, overrideVars, refVars, fillVars>>

\* FindClassMethodIndex(IGM, classDecl, fn).getTargetIndex()
FindClassMethodIndex ==
  /\ searcher.status = "new"
  /\ \E i \in 1..Len(traversal) :
       /\ traversal[i].h = "addMethod"
       /\ searcher' = GetTargetIndexOn(
                        NewSearcher("FindClassMethodIndex", traversal[i]),
                        traversal)
  /\ UNCHANGED <<decl, PointerSize, traversal, builder, overrideVars, refVars, fillVars>>

NextVTable == EmitClassVTable \/ FindClassMethodIndex

SpecVTable == InitVTable /\ [][NextVTable]_vars

\* The method that directly overrides fn in the chain, 0 if none does.
DirectOverrider(ms, fn) ==
  IF \E g \in 1..Len(ms) : ms[g].overridden = fn
  THEN CHOOSE g \in 1..Len(ms) : ms[g].overridden = fn
  ELSE 0

\* The most-derived method of the chain that is fn or overrides it.
RECURSIVE MostDerived(_, _)
MostDerived(ms, fn) ==
  IF DirectOverrider(ms, fn) = 0 THEN fn
  ELSE MostDerived(ms, DirectOverrider(ms, fn))

\* The field the builder pushed at the i-th hook invocation of the layout.
FieldOfHook(i) ==
  builder.Fields[(IF builder.isTemplate THEN TemplateHeaderFieldCount ELSE 0)
                 + builder.ords[i] + 1]

\* C21: after the class builder's construction every method of the target
\* class and of its ancestors has a final overrider, the most-derived
\* method of the chain that is the method or transitively overrides it; a
\* final overrider is its own final overrider; and addMethod puts the final
\* overrider's function in the method's slot.
C21_FinalOverriders ==
  builder.status = "done" =>
    /\ \A f \in 1..Len(decl.members) :
         /\ builder.FinalOverriders[f] # 0
         /\ builder.FinalOverriders[f] = MostDerived(decl.members, f)
         /\ builder.FinalOverriders[builder.FinalOverriders[f]] =
              builder.FinalOverriders[f]
    /\ \A i \in 1..Len(traversal) :
         traversal[i].h = "addMethod" =>
           FieldOfHook(i) = F("function", MostDerived(decl.members, traversal[i].a))

\* The root class's method is overridden in the middle class and that
\* override again in the target class: the root method's slot holds the
\* target class's function.
C21_Witness ==
  /\ builder.status = "done"
  /\ Len(decl.members) = 3
  /\ decl.members[2].overridden = 1
  /\ decl.members[3].overridden = 2
  /\ \E i \in 1..Len(traversal) :
       /\ traversal[i] = Hook("addMethod", 1, 0)
       /\ FieldOfHook(i) = F("function", 3)

(***************************************************************************)
(* Properties of the class builder (SpecLayout, SpecVTable).               *)
(***************************************************************************)
\* The hooks of one archetype requirement after another: the generic
\* argument, then one witness table per protocol.
RECURSIVE GenericPairNames(_, _)
GenericPairNames(archetypes, a) ==
  IF a > Len(archetypes) THEN <<>>
  ELSE <<"addGenericArgument">>
         \o [p \in 1..archetypes[a] |-> "addGenericWitnessTable"]
         \o GenericPairNames(archetypes, a + 1)

ClassHookNames(d) ==
  <<"addMetadataFlags", "addValueWitnessTable", "addDestructorFunction",
    "addParentMetadataRef", "addSuperClass", "noteAddressPoint">>
  \o [i \in 1..d.fields |-> "addFieldOffset"]
  \o [i \in 1..d.methods |-> "addMethod"]
  \o GenericPairNames(d.archetypes, 1)

\* The fields of the record proper, the template header left out.
RecordFields ==
  SubSeq(builder.Fields,
         (IF builder.isTemplate THEN TemplateHeaderFieldCount ELSE 0) + 1,
         Len(builder.Fields))

SlotTag(hookName) ==
  CASE hookName = "addMetadataFlags" -> {"metaclass"}
    [] hookName = "addValueWitnessTable" -> {"vwt"}
    [] hookName = "addDestructorFunction" -> {"destructor"}
    [] hookName = "addParentMetadataRef" -> {"metadata", "null"}
    [] hookName = "addSuperClass" -> {"rootClass", "metadata", "objcClass", "null"}
    [] hookName = "addFieldOffset" -> {"int"}
    [] hookName = "addMethod" -> {"function"}
    [] OTHER -> {"null"}

C23_ReferenceSlots ==
  builder.status = "done" =>
    /\ RecordFields[4] =
         (IF decl.parentConstant THEN F("metadata", 0) ELSE NullField)
    /\ RecordFields[5] =
         CASE decl.superclass = "none" -> F("rootClass", 0)
           [] decl.superclass = "constant" -> F("metadata", 0)
           [] decl.superclass = "foreign" -> F("objcClass", 0)
           [] decl.superclass \in {"deferred", "genericContext"} -> NullField
    /\ \A i \in 1..Len(traversal) :
         builder.ords[i] = IF i <= 6 THEN i - 1 ELSE i - 2
    /\ \A i \in 7..Len(traversal) :
         RecordFields[i - 1].tag \in SlotTag(traversal[i].h)

\* A class nested in a generic type whose superclass has generic parameters
\* in its context: two null placeholders, and the method's entry in the
\* slot after the field offset.
C23_Witness ==
  /\ builder.status = "done"
  /\ ~decl.parentConstant
  /\ decl.superclass = "genericContext"
  /\ RecordFields[4] = NullField /\ RecordFields[5] = NullField
  /\ decl.fields = 1
  /\ Len(traversal) >= 8
  /\ traversal[8].h = "addMethod"
  /\ RecordFields[7].tag = "function"

(***************************************************************************)
(* References to non-generic nominal types (SpecRef).                      *)
(***************************************************************************)
\* A class, struct or enum type without generic parameters whose metadata
\* is Swift's.
IsNativeNominal(t) == t.k \in {"Class", "Struct"} /\ HasKnownSwiftMetadata(t)

\* The session with a value recorded for the type in its local type data.
WithLocalTypeData(st, t) ==
  [st EXCEPT !.LocalTypeData =
     [x \in (DOMAIN st.LocalTypeData) \cup {t} |->
        IF x = t THEN [k |-> "param", sid |-> st.id] ELSE st.LocalTypeData[x]]]

\* C24: a reference to a non-generic native nominal type returns the
\* address of the type's global metadata record; it emits no call and no
\* load, leaves the local type data as it was, and returns the same
\* address whatever the local type data holds for the type.
C24_DirectNominalRef ==
  \A n \in 1..Len(refs) :
    IsNativeNominal(refs[n].ty) =>
      /\ refs[n].value = GlobalValue("metadata", refs[n].ty)
      /\ EmittedBy(refs[n]) = <<>>
      /\ refs[n].post = refs[n].pre
      /\ EmitTypeMetadataRefIn(refs[n].ty, WithLocalTypeData(refs[n].pre, refs[n].ty))
           = Result(GlobalValue("metadata", refs[n].ty),
                    WithLocalTypeData(refs[n].pre, refs[n].ty))

\* Three references to the struct S in one function: three times the
\* address of its record and no instruction.
C24_Witness ==
  /\ Len(refs) = 3
  /\ \A n \in 1..3 :
       /\ refs[n].ty = StructTy("S")
       /\ refs[n].value = GlobalValue("metadata", StructTy("S"))
  /\ refs[1].pre.id = refs[3].pre.id
  /\ session.insts = <<>>

(***************************************************************************)
(* The value-witness-table slot (SpecFill, SpecLayout).                    *)
(***************************************************************************)
\* The slot the layout assigns to the value-witness table: the ordinal of
\* the addValueWitnessTable hook invocation.
ValueWitnessTableSlot ==
  builder.ords[CHOOSE i \in 1..Len(traversal) :
                 traversal[i].h = "addValueWitnessTable"]

\* The slot at which the layout notes the address point.
AddressPointSlot ==
  builder.ords[CHOOSE i \in 1..Len(traversal) :
                 traversal[i].h = "noteAddressPoint"]

\* The template's part of C25: the null placeholder and the pattern.
DependentVWTTemplate ==
  LET rec == RecordOfTemplate(builder)
  IN /\ rec[ValueWitnessTableSlot + 1] = NullField
     /\ builder.DependentVWTPoint # 0
     /\ builder.DependentVWTPoint = Len(traversal) - 1
     /\ Len(rec) = builder.DependentVWTPoint + VWTPatternLen
     /\ \A i \in (builder.DependentVWTPoint + 1)..Len(rec) :
          rec[i].tag = "vwtPattern"

\* The routine's part of C25: every copy, then the store of the table's
\* address, then the initializer.
DependentVWTProgram ==
  LET program == FillProgram(builder.FillFunction)
      n == Len(program)
  IN /\ n = 2 * Len(builder.FillOps) + 2
     /\ \A k \in 1..(n - 2) : program[k].op \in {"load", "store"}
     /\ program[n - 1].op = "storeVWT"
     /\ program[n - 1].vwt = builder.DependentVWTPoint
     /\ program[n].op = "initializeVWT"

\* C25: a generic struct or enum with a dependent value-witness table has a
\* null placeholder in the template's value-witness-table slot and the
\* table's pattern after all other fields, from slot DependentVWTPoint
\* (non-zero) on; its fill routine executes every fill op, then stores the
\* address of slot DependentVWTPoint into the record's value-witness-table
\* slot, then invokes the table's initializer; a generic class has no
\* dependent value-witness table.
C25_DependentVWT ==
  /\ decl.kind = "class" => ~builder.HasDependentVWT
  /\ builder.HasDependentVWT =>
       /\ DependentVWTTemplate
       /\ DependentVWTProgram
       /\ \A i \in 1..MaxFillInvocations :
            fills[i].pc >= Len(FillProgram(builder.FillFunction)) =>
              record[ValueWitnessTableSlot + 1] =
                F("vwtAddr", builder.DependentVWTPoint)

\* The offset emitValueWitnessTableRefForMetadata loads from, in words from
\* the metadata pointer.
ValueWitnessTableOffset == -1

\* C26: in the metadata record of every declaration the value-witness-table
\* pointer is in the slot before the address point: the slot the layout
\* assigns to the value-witness table is the address-point slot minus one,
\* the slot at offset -1 that emitValueWitnessTableRefForMetadata reads and
\* the slot AddressPoint - 1 in which the fill routine stores the address
\* of a dependent value-witness table.
C26_ValueWitnessTableSlot ==
  builder.status = "done" =>
    /\ ValueWitnessTableSlot = AddressPointSlot - 1
    /\ ValueWitnessTableSlot = AddressPointSlot + ValueWitnessTableOffset
    /\ builder.HasDependentVWT =>
         \E k \in 1..Len(FillProgram(builder.FillFunction)) :
           /\ FillProgram(builder.FillFunction)[k].op = "storeVWT"
           /\ FillProgram(builder.FillFunction)[k].to = ValueWitnessTableSlot

\* The offset the Field Locator rule gives for the parent field of the
\* declaration: a searcher that matches the parent hook, run over the
\* declaration's layout.
ParentOffsetByLocator ==
  GetTargetIndexOn(
    NewSearcher("FindClassParentIndex", Hook("addParentMetadataRef", 0, 0)),
    LayoutOf(decl)).result

\* C28: the offset emitParentMetadataRef reads the parent of a struct or an
\* enum at is the offset the Field Locator rule gives for the parent field:
\* the parent's slot minus the address-point slot.
C28_ParentOffset ==
  ( /\ decl.kind # "class"
    /\ searcher.status = "done"
    /\ searcher.finder = "none" )
  => searcher.result = ParentOffsetByLocator

\* The slots (0-based) the dependent value-witness-table initialization of
\* the fill routine writes: the slot before the address point and the
\* table's pattern.
DependentVWTSlots ==
  IF builder.HasDependentVWT
  THEN {builder.AddressPoint - 1}
       \cup (builder.DependentVWTPoint)..(Len(record) - 1)
  ELSE {}

\* C27: every fill op's destination slot is a null placeholder in the
\* template; once the fill routine has run on a copy of the template's
\* record, the destination slot of every fill op holds the word of the
\* argument buffer at the fill op's source index; and a slot that is
\* neither a destination nor written by the dependent value-witness-table
\* initialization is at all times as in the template.
C27_FillFrame ==
  LET ops == builder.FillOps
      template == RecordOfTemplate(builder)
      args == ArgumentBuffer(Len(ops))
      destinations == {ops[k].ToIndex : k \in 1..Len(ops)}
  IN /\ Len(record) = Len(template)
     /\ \A k \in 1..Len(ops) :
          /\ ops[k].ToIndex >= 0 /\ ops[k].ToIndex < Len(template)
          /\ template[ops[k].ToIndex + 1] = NullField
          /\ FillsQuiescent => record[ops[k].ToIndex + 1] = args[ops[k].FromIndex + 1]
     /\ \A s \in 0..(Len(record) - 1) :
          s \notin destinations \cup DependentVWTSlots =>
            record[s + 1] = template[s + 1]

\* The routine of a generic struct with two archetypes and a dependent
\* value-witness table has returned: flags as in the template, both
\* arguments copied.
C27_Witness ==
  /\ FillsQuiescent
  /\ decl.kind = "struct"
  /\ builder.HasDependentVWT
  /\ Len(decl.archetypes) = 2
  /\ record[1] = F("kind", 0)
  /\ record[builder.FillOps[1].ToIndex + 1] = F("arg", 0)
  /\ record[builder.FillOps[Len(builder.FillOps)].ToIndex + 1]
       = F("arg", Len(builder.FillOps) - 1)

(***************************************************************************)
(* SpecVirtual: a virtual call of a method is emitted; the declaration    *)
(* whose v-table slot the call loads is found first.  decls lists the     *)
(* method and the declarations it overrides, nearest first.               *)
(***************************************************************************)
\* The loop of findOverriddenFunction without the test for a v-table entry.
RECURSIVE FindOverriddenFrom_NoBreak(_, _, _, _, _)
FindOverriddenFrom_NoBreak(decls, method, cur, explosionLevel, uncurryLevel) ==
  IF cur = Len(decls) THEN method
  ELSE IF IsCompatibleOverride(decls[method], decls[cur + 1],
                               explosionLevel, uncurryLevel)
  THEN FindOverriddenFrom_NoBreak(decls, cur + 1, cur + 1, explosionLevel,
                                  uncurryLevel)
  ELSE FindOverriddenFrom_NoBreak(decls, method, cur + 1, explosionLevel,
                                  uncurryLevel)

FindOverriddenFunction_NoBreak(decls, explosionLevel, uncurryLevel) ==
  FindOverriddenFrom_NoBreak(decls, 1, 1, explosionLevel, uncurryLevel)

\* The loop of findOverriddenFunction: method and cur are positions in
\* decls; cur->getOverriddenDecl() is the next position.
RECURSIVE FindOverriddenFrom(_, _, _, _, _)
FindOverriddenFrom(decls, method, cur, explosionLevel, uncurryLevel) ==
  IF cur = Len(decls) THEN method
  ELSE IF ~HasKnownVTableEntry(decls[cur + 1]) THEN method
  ELSE IF IsCompatibleOverride(decls[method], decls[cur + 1],
                               explosionLevel, uncurryLevel)
  THEN FindOverriddenFrom(decls, cur + 1, cur + 1, explosionLevel, uncurryLevel)
  ELSE FindOverriddenFrom(decls, method, cur + 1, explosionLevel, uncurryLevel)

\* findOverriddenFunction: the position in decls of the declaration found.
FindOverriddenFunction(decls, explosionLevel, uncurryLevel) ==
  FindOverriddenFrom(decls, 1, 1, explosionLevel, uncurryLevel)

\* The method of the query and the declarations it overrides.
DeclsOf(q) == <<q.fn>> \o q.chain

\* emitVirtualMethodValue: findOverriddenFunction at the best explosion
\* level and the uncurry level of the reference to the method.
FindVirtualMethod ==
  /\ ~query.asked
  /\ \E uncurryLevel \in UncurryLevels :
       /\ query' = [query EXCEPT !.asked = TRUE,
                                 !.explosionLevel = "Minimal",
                                 !.uncurryLevel = uncurryLevel]
       /\ answer' = FindOverriddenFunction(DeclsOf(query), "Minimal", uncurryLevel)
  /\ UNCHANGED <<layoutVars, refVars, fillVars>>

NextVirtual == FindVirtualMethod

InitVirtual ==
  /\ query \in Queries
  /\ answer = 0
  /\ LayoutIdle
  /\ RefIdle
  /\ FillIdle

SpecVirtual == InitVirtual /\ [][NextVirtual]_vars

\* C29: the declaration findOverriddenFunction returns is the method or one
\* of the declarations it overrides, with no declaration lacking a v-table
\* entry between the method and it, itself included unless it is the
\* method; and it owns a v-table slot: it overrides nothing, or
\* doesMethodRequireOverrideEntry, asked at the same levels, answers true
\* for it.
C29_FoundOwnsSlot ==
  query.asked =>
    LET decls == DeclsOf(query)
    IN /\ answer \in 1..Len(decls)
       /\ \A j \in 2..answer : HasKnownVTableEntry(decls[j])
       /\ \/ answer = Len(decls)
          \/ DoesMethodRequireOverrideEntry(
               decls[answer], SubSeq(decls, answer + 1, Len(decls)),
               query.explosionLevel, query.uncurryLevel)

\* The declaration found is the nearest overridden one, which itself
\* overrides a declaration that has a v-table entry.
C29_Witness ==
  /\ query.asked
  /\ Len(query.chain) = 2
  /\ answer = 2
  /\ HasKnownVTableEntry(query.chain[2])

\* C30: for a method declared in the target class, the offset recorded in
\* its witness-table-offset variable is the ordinal the locator counts for
\* the method's slot, from the first laid-out field and without the
\* template header, times the word size.
C30_WitnessTableOffset ==
  (builder.status = "done" /\ searcher.status = "done") =>
    LET fn == searcher.target.a
    IN decl.members[fn].cls = decl.target =>
         builder.WitnessTableOffsets[fn] = searcher.TargetIndex * PointerSize

====
